---- MODULE Spec2Model ----
(***************************************************************************)
(* Heuristic spreadsheet-layout parsers of the weekly report dashboard     *)
(* (src/parsers).  A sheet is a grid of cells read with header=None; a     *)
(* cell is modelled by its text, the empty string standing for an empty    *)
(* (NaN) cell.  Every parser is translated from its source: the Box Score  *)
(* parser as metadata, locate and extract steps, the other parsers as one  *)
(* action each.                                                            *)
(***************************************************************************)
EXTENDS Integers, Sequences, FiniteSets, TLC

(***************************************************************************)
(* Text primitives (Python str methods used by the parsers)                *)
(***************************************************************************)
UpperChars == "ABCDEFGHIJKLMNOPQRSTUVWXYZ"

LowerChars == "abcdefghijklmnopqrstuvwxyz"

Digits == "0123456789"

CharAt(s, i) == SubSeq(s, i, i)

\* c in chars, for a one-character string c
CharIn(c, chars) == \E k \in 1..Len(chars) : CharAt(chars, k) = c

IndexIn(c, chars) == CHOOSE k \in 1..Len(chars) : CharAt(chars, k) = c

\* str.lower() on one character, as a table
ToLower == [c \in {CharAt(UpperChars, k) : k \in 1..Len(UpperChars)} |-> CharAt(LowerChars, IndexIn(c, UpperChars))]

LowerChar(c) == IF c \in DOMAIN ToLower THEN ToLower[c] ELSE c

RECURSIVE Lower(_)
Lower(s) == IF Len(s) = 0 THEN "" ELSE LowerChar(CharAt(s, 1)) \o Lower(SubSeq(s, 2, Len(s)))

IsSpace(c) == c = " " \/ c = "\t" \/ c = "\n"

RECURSIVE LStrip(_)
LStrip(s) == IF Len(s) > 0 /\ IsSpace(CharAt(s, 1)) THEN LStrip(SubSeq(s, 2, Len(s))) ELSE s

RECURSIVE RStrip(_)
RStrip(s) == IF Len(s) > 0 /\ IsSpace(CharAt(s, Len(s))) THEN RStrip(SubSeq(s, 1, Len(s) - 1)) ELSE s

Strip(s) == RStrip(LStrip(s))

\* w in s
Contains(s, w) == \E i \in 1..(Len(s) - Len(w) + 1) : SubSeq(s, i, i + Len(w) - 1) = w

StartsWith(s, w) == Len(w) <= Len(s) /\ SubSeq(s, 1, Len(w)) = w

\* s.replace(c, '') for the one-character strings of chars
RECURSIVE RemoveChars(_, _)
RemoveChars(s, chars) ==
    IF Len(s) = 0 THEN ""
    ELSE (IF CharIn(CharAt(s, 1), chars) THEN "" ELSE CharAt(s, 1))
         \o RemoveChars(SubSeq(s, 2, Len(s)), chars)

\* ' '.join(cells)
RECURSIVE JoinSpace(_)
JoinSpace(cells) ==
    IF Len(cells) = 0 THEN ""
    ELSE IF Len(cells) = 1 THEN cells[1]
    ELSE cells[1] \o " " \o JoinSpace(Tail(cells))

\* str(cell) of a raw cell: an empty cell is NaN and prints as 'nan'
StrCell(c) == IF c = "" THEN "nan" ELSE c

\* the number of elements of a sequence that satisfy a boolean sequence
RECURSIVE CountTrue(_)
CountTrue(bs) == IF Len(bs) = 0 THEN 0 ELSE (IF Head(bs) THEN 1 ELSE 0) + CountTrue(Tail(bs))

\* any(cell.strip() for cell in row_data)
AnyNonBlank(row) == \E k \in 1..Len(row) : Strip(row[k]) # ""

\* df_raw.iloc[i, :n] : the first n cells of a row (fewer when the sheet is narrower)
FirstCells(row, n) == SubSeq(row, 1, IF n < Len(row) THEN n ELSE Len(row))

Min(a, b) == IF a < b THEN a ELSE b

(***************************************************************************)
(* pd.to_numeric(series, errors='coerce') on text                          *)
(* A number is an optional sign, digits and at most one decimal point;     *)
(* anything else is NaN.  The value is kept exactly: sign, whole part and  *)
(* the fraction digits without trailing zeros.                             *)
(***************************************************************************)
AllDigits(s) == \A k \in 1..Len(s) : CharIn(CharAt(s, k), Digits)

RECURSIVE DigitsToNat(_)
DigitsToNat(s) ==
    IF Len(s) = 0 THEN 0
    ELSE DigitsToNat(SubSeq(s, 1, Len(s) - 1)) * 10 + (IndexIn(CharAt(s, Len(s)), Digits) - 1)

RECURSIVE DropTrailingZeros(_)
DropTrailingZeros(s) ==
    IF Len(s) > 0 /\ CharAt(s, Len(s)) = "0" THEN DropTrailingZeros(SubSeq(s, 1, Len(s) - 1)) ELSE s

NaN == [kind |-> "nan", text |-> "", neg |-> FALSE, whole |-> 0, frac |-> ""]

StrVal(s) == [kind |-> "str", text |-> s, neg |-> FALSE, whole |-> 0, frac |-> ""]

NumVal(neg, whole, frac) ==
    [kind |-> "num", text |-> "", neg |-> (neg /\ (whole # 0 \/ frac # "")), whole |-> whole, frac |-> frac]

Zero == NumVal(FALSE, 0, "")

\* the position of the decimal point of s, 0 when there is none
DotPos(s) == IF Contains(s, ".") THEN CHOOSE k \in 1..Len(s) : CharAt(s, k) = "." ELSE 0

UnsignedNumber(u) ==
    LET d == DotPos(u)
        w == IF d = 0 THEN u ELSE SubSeq(u, 1, d - 1)
        f == IF d = 0 THEN "" ELSE SubSeq(u, d + 1, Len(u))
    IN  IF AllDigits(w) /\ AllDigits(f) /\ Len(w) + Len(f) > 0
        THEN [ok |-> TRUE, whole |-> DigitsToNat(w), frac |-> DropTrailingZeros(f), isint |-> d = 0]
        ELSE [ok |-> FALSE, whole |-> 0, frac |-> "", isint |-> FALSE]

ToNumeric(s) ==
    LET t == Strip(s)
        signed == Len(t) > 0 /\ CharIn(CharAt(t, 1), "+-")
        neg == Len(t) > 0 /\ CharAt(t, 1) = "-"
        u == UnsignedNumber(IF signed THEN SubSeq(t, 2, Len(t)) ELSE t)
    IN  IF u.ok THEN NumVal(neg, u.whole, u.frac) ELSE NaN

\* whether to_numeric reads s as an integer (the column stays int64 when all cells do)
ParsesAsInt(s) ==
    LET t == Strip(s)
        signed == Len(t) > 0 /\ CharIn(CharAt(t, 1), "+-")
        u == UnsignedNumber(IF signed THEN SubSeq(t, 2, Len(t)) ELSE t)
    IN  u.ok /\ u.isint

\* a dict with no key, and d[key] = val
NoTables == [k \in {} |-> 0]

Put(f, key, val) == [k \in DOMAIN f \cup {key} |-> IF k = key THEN val ELSE f[k]]

\* the positions of a column name in a header list (more than one when it is repeated)
Occurrences(headers, name) == {k \in 1..Len(headers) : headers[k] = name}

(***************************************************************************)
(* Box Score Summary parser (src/parsers/resanalytics_box_parser.py)       *)
(***************************************************************************)
\* section_patterns, in the order the dict is written
SectionNames == <<"availability", "resident_activity", "conversion_ratios">>

section_patterns ==
    [availability |-> <<"availability", "avail">>,
     resident_activity |-> <<"resident", "activity">>,
     conversion_ratios |-> <<"conversion", "ratios">>]

\* the test of lines 63-71 on the lowered, stripped text of a row's first cell
SectionMatches(section_name, first_cell) ==
    LET patterns == section_patterns[section_name]
    IN  IF section_name = "conversion_ratios"
        THEN \A k \in 1..Len(patterns) : Contains(first_cell, patterns[k])
        ELSE \E k \in 1..Len(patterns) : Contains(first_cell, patterns[k])

\* variant: a section that already has a location keeps it (first match wins)
SetLocation_FirstWins(locs, name, row) ==
    IF \E k \in 1..Len(locs) : locs[k].name = name
    THEN locs
    ELSE Append(locs, [name |-> name, row |-> row])

\* section_locations is a dict: a key keeps the place of its first insertion,
\* a later assignment overwrites its value
SetLocation(locs, name, row) ==
    IF \E k \in 1..Len(locs) : locs[k].name = name
    THEN [k \in 1..Len(locs) |-> IF locs[k].name = name THEN [name |-> name, row |-> row] ELSE locs[k]]
    ELSE Append(locs, [name |-> name, row |-> row])

RECURSIVE LocateInRow(_, _, _, _)
LocateInRow(locs, first_cell, i, k) ==
    IF k > Len(SectionNames) THEN locs
    ELSE LocateInRow(IF SectionMatches(SectionNames[k], first_cell)
                     THEN SetLocation(locs, SectionNames[k], i) ELSE locs,
                     first_cell, i, k + 1)

\* the loop of lines 60-71 from row i on
RECURSIVE LocateSections(_, _, _)
LocateSections(grid, i, locs) ==
    IF i > Len(grid) THEN locs
    ELSE LocateSections(grid, i + 1,
                        LocateInRow(locs, Strip(Lower(StrCell(grid[i][1]))), i, 1))

header_words == <<"code", "name", "units", "calls", "move", "rent", "contact", "walk", "email", "web", "sms">>

CodeBonus == 5

LookaheadRows == 4

\* the score of one candidate header row (lines 110-119)
HeaderScore(row) ==
    LET joined_row == Lower(JoinSpace(row))
        words == Cardinality({k \in 1..Len(header_words) : Contains(joined_row, header_words[k])})
    IN  words + (IF Strip(Lower(row[1])) = "code" THEN CodeBonus ELSE 0)

\* variant: a candidate replaces the best one also with an equal score (last maximum wins)
RECURSIVE BestHeaderRow_LastWins(_, _, _, _, _)
BestHeaderRow_LastWins(grid, i, last, best_score, header_row) ==
    IF i > last THEN header_row
    ELSE IF HeaderScore(grid[i]) >= best_score /\ HeaderScore(grid[i]) > 0
         THEN BestHeaderRow_LastWins(grid, i + 1, last, HeaderScore(grid[i]), i)
         ELSE BestHeaderRow_LastWins(grid, i + 1, last, best_score, header_row)

\* the loop of lines 107-123: the candidates are the rows after start_row,
\* a candidate replaces the best one only with a strictly higher score
RECURSIVE BestHeaderRow(_, _, _, _, _)
BestHeaderRow(grid, i, last, best_score, header_row) ==
    IF i > last THEN header_row
    ELSE IF HeaderScore(grid[i]) > best_score
         THEN BestHeaderRow(grid, i + 1, last, HeaderScore(grid[i]), i)
         ELSE BestHeaderRow(grid, i + 1, last, best_score, header_row)

\* variant: the best score starts below zero, so a row without any header word is accepted
FindHeaderRow_ZeroAccepted(grid, start_row) ==
    BestHeaderRow(grid, start_row + 1, Min(start_row + LookaheadRows, Len(grid)), -1, 0)

\* header_row of lines 104-126; 0 stands for None
FindHeaderRow(grid, start_row) ==
    BestHeaderRow(grid, start_row + 1, Min(start_row + LookaheadRows, Len(grid)), 0, 0)

\* lines 131-138: the stripped header cells up to the first empty one
RECURSIVE CleanHeaders(_, _)
CleanHeaders(headers, k) ==
    IF k > Len(headers) THEN <<>>
    ELSE IF Strip(headers[k]) # "" /\ ~StartsWith(Strip(headers[k]), "Unnamed")
         THEN <<Strip(headers[k])>> \o CleanHeaders(headers, k + 1)
         ELSE <<>>

\* lines 153-155: the first cell names a section
IsSectionKeywordRow(first_cell) ==
    \/ Contains(first_cell, "availability")
    \/ Contains(first_cell, "resident")
    \/ Contains(first_cell, "activity")
    \/ (Contains(first_cell, "conversion") /\ Contains(first_cell, "ratios"))

MinRowsBeforeTotal == 2

\* variant: the "Total" row ends the extraction before it is appended
RECURSIVE DataRowIndices_TotalLeftOut(_, _, _, _)
DataRowIndices_TotalLeftOut(grid, i, ncols, idx) ==
    IF i > Len(grid) THEN idx
    ELSE LET row_data == FirstCells(grid[i], ncols)
             first_cell == Strip(Lower(row_data[1]))
         IN  IF ~AnyNonBlank(row_data) THEN DataRowIndices_TotalLeftOut(grid, i + 1, ncols, idx)
             ELSE IF IsSectionKeywordRow(first_cell) THEN idx
             ELSE IF Contains(first_cell, "total") /\ Len(idx) >= MinRowsBeforeTotal
                  THEN idx
                  ELSE DataRowIndices_TotalLeftOut(grid, i + 1, ncols, Append(idx, i))

\* variant: the "Total" row is appended but does not end the extraction
RECURSIVE DataRowIndices_NoTotalStop(_, _, _, _)
DataRowIndices_NoTotalStop(grid, i, ncols, idx) ==
    IF i > Len(grid) THEN idx
    ELSE LET row_data == FirstCells(grid[i], ncols)
             first_cell == Strip(Lower(row_data[1]))
         IN  IF ~AnyNonBlank(row_data) THEN DataRowIndices_NoTotalStop(grid, i + 1, ncols, idx)
             ELSE IF IsSectionKeywordRow(first_cell) THEN idx
             ELSE DataRowIndices_NoTotalStop(grid, i + 1, ncols, Append(idx, i))

\* variant: the first blank row ends the extraction
RECURSIVE DataRowIndices_StopAtBlank(_, _, _, _)
DataRowIndices_StopAtBlank(grid, i, ncols, idx) ==
    IF i > Len(grid) THEN idx
    ELSE LET row_data == FirstCells(grid[i], ncols)
             first_cell == Strip(Lower(row_data[1]))
         IN  IF ~AnyNonBlank(row_data) THEN idx
             ELSE IF IsSectionKeywordRow(first_cell) THEN idx
             ELSE IF Contains(first_cell, "total") /\ Len(idx) + 1 > MinRowsBeforeTotal
                  THEN Append(idx, i)
                  ELSE DataRowIndices_StopAtBlank(grid, i + 1, ncols, Append(idx, i))

\* lines 145-162: the indices of the grid rows that become data_rows, from row i on;
\* idx holds the rows appended so far
RECURSIVE DataRowIndices(_, _, _, _)
DataRowIndices(grid, i, ncols, idx) ==
    IF i > Len(grid) THEN idx
    ELSE LET row_data == FirstCells(grid[i], ncols)
             first_cell == Strip(Lower(row_data[1]))
         IN  IF ~AnyNonBlank(row_data) THEN DataRowIndices(grid, i + 1, ncols, idx)
             ELSE IF IsSectionKeywordRow(first_cell) THEN idx
             ELSE IF Contains(first_cell, "total") /\ Len(idx) + 1 > MinRowsBeforeTotal
                  THEN Append(idx, i)
                  ELSE DataRowIndices(grid, i + 1, ncols, Append(idx, i))

\* numeric_patterns of lines 171-178
numeric_patterns(section_name) ==
    IF section_name = "availability" THEN <<"sq ft", "rent", "units", "occupied", "vacant">>
    ELSE IF section_name = "resident_activity" THEN <<"units", "move", "reverse", "cancel", "notice", "term">>
    ELSE IF section_name = "conversion_ratios" THEN <<"calls", "walk", "email", "sms", "web", "chat", "contact", "other">>
    ELSE <<"units", "count", "total">>

IsNumericColumn(col, patterns) == \E k \in 1..Len(patterns) : Contains(Lower(col), patterns[k])

\* lines 185-187 on one cell: drop ',' and '$', strip, '' -> '0', to_numeric, NaN -> 0
BoxCleanText(s) == LET t == Strip(RemoveChars(s, ",$")) IN IF t = "" THEN "0" ELSE t

BoxCleanCell(s) == IF ToNumeric(BoxCleanText(s)).kind = "nan" THEN Zero ELSE ToNumeric(BoxCleanText(s))

\* lines 180-189: a column is cleaned when its name holds a numeric pattern; df[col] of a
\* repeated name is a frame without .str, the AttributeError is swallowed and the column stays text
BoxColumnCleaned(headers, k, section_name) ==
    /\ IsNumericColumn(headers[k], numeric_patterns(section_name))
    /\ Cardinality(Occurrences(headers, headers[k])) = 1

BoxColumnDtype(headers, rows, k, section_name) ==
    IF ~BoxColumnCleaned(headers, k, section_name) THEN "object"
    ELSE IF \A r \in 1..Len(rows) : ParsesAsInt(BoxCleanText(rows[r][k])) THEN "int64"
    ELSE "float64"

\* pd.DataFrame(data_rows, columns=clean_headers) followed by the clean-up of lines 170-189
BoxTable(headers, rows, section_name) ==
    [columns |-> headers,
     dtypes |-> [k \in 1..Len(headers) |-> BoxColumnDtype(headers, rows, k, section_name)],
     rows |-> [r \in 1..Len(rows) |->
                 [k \in 1..Len(headers) |->
                     IF BoxColumnCleaned(headers, k, section_name)
                     THEN BoxCleanCell(rows[r][k]) ELSE StrVal(rows[r][k])]]]

\* _extract_section_data: found is FALSE where the function returns None
ExtractSectionData(grid, start_row, section_name) ==
    LET header_row == FindHeaderRow(grid, start_row)
        clean_headers == IF header_row = 0 THEN <<>> ELSE CleanHeaders(grid[header_row], 1)
        idx == IF Len(clean_headers) = 0 THEN <<>>
               ELSE DataRowIndices(grid, header_row + 1, Len(clean_headers), <<>>)
        data_rows == [k \in 1..Len(idx) |-> FirstCells(grid[idx[k]], Len(clean_headers))]
    IN  [found |-> Len(idx) > 0,
         header_row |-> header_row,
         row_idx |-> idx,
         table |-> BoxTable(clean_headers, data_rows, section_name)]

(***************************************************************************)
(* Helpers shared by the single-table report parsers                       *)
(***************************************************************************)
\* the first row that satisfies the header test, 0 when none does; hits[i] is the test on row i
\* (for i, row in df_raw.iterrows(): if <test>: header_row = i; break)
FirstRowWhere(hits) ==
    IF \E i \in 1..Len(hits) : hits[i]
    THEN CHOOSE i \in 1..Len(hits) : hits[i] /\ \A j \in 1..(i - 1) : ~hits[j]
    ELSE 0

\* [h.strip() for h in headers if h.strip()]
RECURSIVE NonBlankStripped(_)
NonBlankStripped(cells) ==
    IF Len(cells) = 0 THEN <<>>
    ELSE (IF Strip(Head(cells)) # "" THEN <<Strip(Head(cells))>> ELSE <<>>) \o NonBlankStripped(Tail(cells))

\* for i in range(first, len(df_raw)): row_data = df_raw.iloc[i, :ncols]; kept when any cell is non-blank
RECURSIVE NonBlankRowIndices(_, _, _)
NonBlankRowIndices(grid, i, ncols) ==
    IF i > Len(grid) THEN <<>>
    ELSE (IF AnyNonBlank(FirstCells(grid[i], ncols)) THEN <<i>> ELSE <<>>)
         \o NonBlankRowIndices(grid, i + 1, ncols)

RowsAt(grid, idx, ncols) == [k \in 1..Len(idx) |-> FirstCells(grid[idx[k]], ncols)]

\* str(n) for n >= 0
RECURSIVE IntToStr(_)
IntToStr(n) == IF n < 10 THEN CharAt(Digits, n + 1) ELSE IntToStr(n \div 10) \o CharAt(Digits, (n % 10) + 1)

EmptyTable == [columns |-> <<>>, dtypes |-> <<>>, rows |-> <<>>]

\* the dtype to_numeric gives a column of text cells
NumericDtype(texts) == IF \A r \in 1..Len(texts) : ParsesAsInt(texts[r]) THEN "int64" ELSE "float64"

\* a frame whose columns k with cleaned[k] went through to_numeric(..., errors='coerce');
\* texts[r][k] is the text of the cell after the parser's clean-up
NumericTable(headers, rows, cleaned, texts) ==
    [columns |-> headers,
     dtypes |-> [k \in 1..Len(headers) |->
                    IF cleaned[k] THEN NumericDtype([r \in 1..Len(rows) |-> texts[r][k]]) ELSE "object"],
     rows |-> [r \in 1..Len(rows) |->
                 [k \in 1..Len(headers) |->
                     IF cleaned[k] THEN ToNumeric(texts[r][k]) ELSE StrVal(rows[r][k])]]]

\* a column that is a clean-up target (targets[k]) has a repeated name
HasRepeated(headers, targets) ==
    \E k \in 1..Len(headers) : targets[k] /\ Cardinality(Occurrences(headers, headers[k])) > 1

Result(exc, key, table, header_row, idx) ==
    [raised |-> exc,
     tables |-> IF exc = "" THEN Put(NoTables, key, table) ELSE NoTables,
     trace |-> IF exc = "" /\ header_row # 0
               THEN Put(NoTables, key, [header_row |-> header_row, row_idx |-> idx]) ELSE NoTables]

(***************************************************************************)
(* Work Order Report parser (src/parsers/work_order_parser.py)             *)
(***************************************************************************)
IsWorkOrderHeader(row) == Contains(StrCell(row[1]), "WO#") \/ Contains(StrCell(row[2]), "Brief Desc")

\* str.replace(r'[^\d]', '', regex=True)
RECURSIVE KeepDigits(_)
KeepDigits(s) ==
    IF Len(s) = 0 THEN ""
    ELSE (IF CharIn(CharAt(s, 1), Digits) THEN CharAt(s, 1) ELSE "") \o KeepDigits(SubSeq(s, 2, Len(s)))

WorkOrderTable(headers, rows) ==
    LET t == NumericTable(headers, rows, [k \in 1..Len(headers) |-> headers[k] = "WO#"], rows)
    IN  [t EXCEPT !.rows = [r \in 1..Len(rows) |->
                              [k \in 1..Len(headers) |->
                                  IF headers[k] = "Caller Phone" THEN StrVal(KeepDigits(rows[r][k]))
                                  ELSE t.rows[r][k]]]]

\* parse_work_order_report, lines 44-84
WorkOrderResult(grid) ==
    LET header_row == FirstRowWhere([i \in 1..Len(grid) |-> IsWorkOrderHeader(grid[i])])
        headers == IF header_row = 0 THEN <<>> ELSE NonBlankStripped(grid[header_row])
        idx == IF header_row = 0 THEN <<>> ELSE NonBlankRowIndices(grid, header_row + 1, Len(headers))
        work_orders == RowsAt(grid, idx, Len(headers))
    IN  IF header_row = 0 THEN Result("", "work_orders", EmptyTable, 0, <<>>)
        \* work_order_df is assigned only under "if work_orders:" and read by the return
        ELSE IF Len(work_orders) = 0 THEN Result("UnboundLocalError", "work_orders", EmptyTable, 0, <<>>)
        \* a repeated 'WO#' makes df['WO#'] a frame: to_numeric raises TypeError
        ELSE IF Cardinality(Occurrences(headers, "WO#")) > 1
             THEN Result("TypeError", "work_orders", EmptyTable, 0, <<>>)
        \* a repeated 'Caller Phone' makes df['Caller Phone'] a frame without .str
        ELSE IF Cardinality(Occurrences(headers, "Caller Phone")) > 1
             THEN Result("AttributeError", "work_orders", EmptyTable, 0, <<>>)
        ELSE Result("", "work_orders", WorkOrderTable(headers, work_orders), header_row, idx)

(***************************************************************************)
(* Box Score metadata (resanalytics_box_parser.py lines 28-46)             *)
(***************************************************************************)
\* \w on the ASCII text of the sheets
IsWordChar(c) == CharIn(c, UpperChars) \/ CharIn(c, LowerChars) \/ CharIn(c, Digits) \/ c = "_"

\* the first position of the run of word characters that ends at position e
RECURSIVE WordRunStart(_, _)
WordRunStart(s, e) == IF e > 1 /\ IsWordChar(CharAt(s, e - 1)) THEN WordRunStart(s, e - 1) ELSE e

\* the last position of the run of word characters that starts at position b
RECURSIVE WordRunEnd(_, _)
WordRunEnd(s, b) == IF b < Len(s) /\ IsWordChar(CharAt(s, b + 1)) THEN WordRunEnd(s, b + 1) ELSE b

\* the last position before p that holds no whitespace, 0 when there is none
RECURSIVE SkipSpaceBack(_, _)
SkipSpaceBack(s, p) == IF p > 1 /\ IsSpace(CharAt(s, p - 1)) THEN SkipSpaceBack(s, p - 1) ELSE p - 1

\* position p holds the "(" of a match of (\w+)\s*\((\w+)\)
IsPropertyParen(s, p) ==
    /\ CharAt(s, p) = "("
    /\ SkipSpaceBack(s, p) >= 1 /\ IsWordChar(CharAt(s, SkipSpaceBack(s, p)))
    /\ p + 2 <= Len(s) /\ IsWordChar(CharAt(s, p + 1))
    /\ WordRunEnd(s, p + 1) < Len(s) /\ CharAt(s, WordRunEnd(s, p + 1) + 1) = ")"

\* re.search(r'(\w+)\s*\((\w+)\)', s): the leftmost match, both groups greedy
PropertyMatch(s) ==
    IF \E p \in 1..Len(s) : IsPropertyParen(s, p)
    THEN LET p == CHOOSE q \in 1..Len(s) : IsPropertyParen(s, q) /\ \A r \in 1..(q - 1) : ~IsPropertyParen(s, r)
             w == SkipSpaceBack(s, p)
         IN  [found |-> TRUE,
              name |-> SubSeq(s, WordRunStart(s, w), w),
              code |-> SubSeq(s, p + 1, WordRunEnd(s, p + 1))]
    ELSE [found |-> FALSE, name |-> "", code |-> ""]

\* [0-9/\-]
IsDateChar(c) == CharIn(c, Digits) \/ c = "/" \/ c = "-"

DateCharsAfter(s, e) == {k \in (e + 1)..Len(s) : IsDateChar(CharAt(s, k))}

RECURSIVE DateRunEnd(_, _)
DateRunEnd(s, b) == IF b < Len(s) /\ IsDateChar(CharAt(s, b + 1)) THEN DateRunEnd(s, b + 1) ELSE b

SetMin(S) == CHOOSE x \in S : \A y \in S : x <= y

\* re.search(r'Date.*?=.*?([0-9/\-]+.*?[0-9/\-]+)', s) on a one-line text: the first "Date",
\* the first "=" behind it, and from the first date character behind that the shortest text
\* that ends with a second run of date characters (the first run itself when it is the only one)
DateRangeMatch(s) ==
    LET starts == {i \in 1..(Len(s) - 3) : SubSeq(s, i, i + 3) = "Date"}
        eqs == IF starts = {} THEN {} ELSE {e \in (SetMin(starts) + 4)..Len(s) : CharAt(s, e) = "="}
        chars == IF eqs = {} THEN {} ELSE DateCharsAfter(s, SetMin(eqs))
    IN  IF Cardinality(chars) < 2 THEN [found |-> FALSE, range |-> ""]
        ELSE LET g == SetMin(chars)
                 r == DateRunEnd(s, g)
                 later == {k \in chars : k > r}
             IN  [found |-> TRUE,
                  range |-> SubSeq(s, g, IF later = {} THEN r ELSE DateRunEnd(s, SetMin(later)))]

PropertyWindow == 5

DateWindow == 10

\* lines 32-38: the first of the leading rows whose first cell matches sets both keys
BoxPropertyRow(grid) ==
    FirstRowWhere([i \in 1..Min(PropertyWindow, Len(grid)) |-> PropertyMatch(StrCell(grid[i][1])).found])

\* lines 41-46
BoxDateRow(grid) ==
    FirstRowWhere([i \in 1..Min(DateWindow, Len(grid)) |-> DateRangeMatch(StrCell(grid[i][1])).found])

BoxMetadata(grid) ==
    LET p == BoxPropertyRow(grid)
        d == BoxDateRow(grid)
        m1 == IF p = 0 THEN NoTables
              ELSE Put(Put(NoTables, "property_name", PropertyMatch(StrCell(grid[p][1])).name),
                       "property_code", PropertyMatch(StrCell(grid[p][1])).code)
    IN  IF d = 0 THEN m1 ELSE Put(m1, "date_range", DateRangeMatch(StrCell(grid[d][1])).range)

(***************************************************************************)
(* Work Order metadata (work_order_parser.py lines 28-42, 79-84)           *)
(***************************************************************************)
\* re.search(r'Property=(\w+)', s): the leftmost "Property=" that a word character follows
IsPropertyCodeAt(s, i) ==
    /\ i + 9 <= Len(s)
    /\ SubSeq(s, i, i + 8) = "Property="
    /\ IsWordChar(CharAt(s, i + 9))

PropertyCodeMatch(s) ==
    LET at == {i \in 1..Len(s) : IsPropertyCodeAt(s, i)}
    IN  IF at = {} THEN [found |-> FALSE, code |-> ""]
        ELSE [found |-> TRUE, code |-> SubSeq(s, SetMin(at) + 9, WordRunEnd(s, SetMin(at) + 9))]

\* the closing quotes behind a "Status='" at position i
ClosingQuotes(s, i) == {k \in (i + 9)..Len(s) : CharAt(s, k) = "'"}

\* re.search(r"Status='([^']+)'", s)
IsStatusAt(s, i) ==
    /\ i + 9 <= Len(s)
    /\ SubSeq(s, i, i + 7) = "Status='"
    /\ CharAt(s, i + 8) # "'"
    /\ ClosingQuotes(s, i) # {}

\* [s.strip() for s in status_match.group(1).split("','")]: the group holds no quote,
\* so the split gives the group as its one part
StatusMatch(s) ==
    LET at == {i \in 1..Len(s) : IsStatusAt(s, i)}
    IN  IF at = {} THEN [found |-> FALSE, filters |-> <<>>]
        ELSE [found |-> TRUE,
              filters |-> <<Strip(SubSeq(s, SetMin(at) + 8, SetMin(ClosingQuotes(s, SetMin(at))) - 1))>>]

WorkOrderWindow == 3

\* one turn of the loop of lines 31-42: no break, every row of the window is tried
WorkOrderMetadataRow(md, cell_value) ==
    IF ~Contains(cell_value, "Property=") THEN md
    ELSE LET property_match == PropertyCodeMatch(cell_value)
             status_match == StatusMatch(cell_value)
             m1 == IF property_match.found THEN Put(md, "property_code", property_match.code) ELSE md
         IN  IF status_match.found THEN Put(m1, "status_filters", status_match.filters) ELSE m1

RECURSIVE WorkOrderMetadataRows(_, _, _)
WorkOrderMetadataRows(grid, i, md) ==
    IF i > Min(WorkOrderWindow, Len(grid)) THEN md
    ELSE WorkOrderMetadataRows(grid, i + 1, WorkOrderMetadataRow(md, StrCell(grid[i][1])))

\* the metadata of the result: lines 31-42, then work_order_count (line 73 or 76)
WorkOrderMetadata(grid) ==
    LET md == WorkOrderMetadataRows(grid, 1, NoTables)
        result == WorkOrderResult(grid)
    IN  IF result.raised # "" THEN md
        ELSE Put(md, "work_order_count", Len(result.tables["work_orders"].rows))

(***************************************************************************)
(* Budget Comparison parser (src/parsers/budget_comparison_parser.py)      *)
(***************************************************************************)
IsBudgetHeader(row) == Contains(StrCell(row[3]), "MTD Actual") \/ Contains(StrCell(row[4]), "MTD Budget")

\* lines 72-77 over the already filtered header list
BudgetCleanHeaders(headers) ==
    [k \in 1..Len(headers) |->
        IF headers[k] # "" /\ ~StartsWith(headers[k], "Unnamed") THEN headers[k]
        ELSE "Column_" \o IntToStr(k - 1)]

\* s.replace(c, r) for a one-character c
RECURSIVE ReplaceChar(_, _, _)
ReplaceChar(s, c, r) ==
    IF Len(s) = 0 THEN ""
    ELSE (IF CharAt(s, 1) = c THEN r ELSE CharAt(s, 1)) \o ReplaceChar(SubSeq(s, 2, Len(s)), c, r)

\* lines 95-96
BudgetCleanText(s) == ReplaceChar(RemoveChars(s, ",$()"), "-", "0")

IsBudgetAmountColumn(col) ==
    \E w \in {"actual", "budget", "variance", "ytd"} : Contains(Lower(col), w)

\* lines 89-100: the AttributeError of a repeated column name is swallowed, the column stays text
BudgetTable(headers, rows) ==
    NumericTable(headers, rows,
                 [k \in 1..Len(headers) |->
                     IsBudgetAmountColumn(headers[k]) /\ Cardinality(Occurrences(headers, headers[k])) = 1],
                 [r \in 1..Len(rows) |-> [k \in 1..Len(headers) |-> BudgetCleanText(rows[r][k])]])

\* rows 0, 2 and 3 are read without a length check (lines 31, 41, 46)
BudgetMetadataRows == 4

\* parse_budget_comparison
BudgetResult(grid) ==
    LET header_row == FirstRowWhere([i \in 1..Len(grid) |-> IsBudgetHeader(grid[i])])
        clean_headers == IF header_row = 0 THEN <<>> ELSE BudgetCleanHeaders(NonBlankStripped(grid[header_row]))
        idx == IF header_row = 0 THEN <<>> ELSE NonBlankRowIndices(grid, header_row + 1, Len(clean_headers))
        budget_data == RowsAt(grid, idx, Len(clean_headers))
    IN  IF Len(grid) < BudgetMetadataRows THEN Result("IndexError", "budget_data", EmptyTable, 0, <<>>)
        ELSE IF Len(budget_data) = 0 THEN Result("", "budget_data", EmptyTable, 0, <<>>)
        ELSE Result("", "budget_data", BudgetTable(clean_headers, budget_data), header_row, idx)

(***************************************************************************)
(* Multi-row headers (unit availability, pending make ready, delinquency,  *)
(* market rent)                                                            *)
(***************************************************************************)
\* variant: two non-empty texts are always joined, also when they are identical
MergePair_NoIdentityCheck(h1, h2) ==
    IF Strip(h1) # "" /\ Strip(h2) # ""
    THEN Strip(Strip(h1) \o " " \o Strip(h2))
    ELSE IF Strip(h1) # "" THEN Strip(h1)
    ELSE IF Strip(h2) # "" THEN Strip(h2)
    ELSE ""

\* the name of one column from its two header cells; "" when both are empty
\* (resanalytics_unit_parser.py lines 69-77, the same text in pending_make_parser.py
\* lines 58-66 and resaranalytics_delinquency_parser.py lines 60-68)
MergePair(h1, h2) ==
    IF Strip(h1) # "" /\ Strip(h2) # ""
    THEN IF Strip(h1) = Strip(h2) THEN Strip(h1) ELSE Strip(Strip(h1) \o " " \o Strip(h2))
    ELSE IF Strip(h1) # "" THEN Strip(h1)
    ELSE IF Strip(h2) # "" THEN Strip(h2)
    ELSE ""

\* while headers and headers[-1].startswith('Column_'): headers.pop()
RECURSIVE PopTrailingColumns(_)
PopTrailingColumns(headers) ==
    IF Len(headers) > 0 /\ StartsWith(headers[Len(headers)], "Column_")
    THEN PopTrailingColumns(SubSeq(headers, 1, Len(headers) - 1))
    ELSE headers

\* variant: unit availability stops at the first both-empty column, as the other parsers do
RECURSIVE UnitHeaders_UntilGap(_, _)
UnitHeaders_UntilGap(header_row1, header_row2) ==
    IF Len(header_row1) = 0 \/ Len(header_row2) = 0 THEN <<>>
    ELSE IF MergePair(Head(header_row1), Head(header_row2)) = "" THEN <<>>
    ELSE <<MergePair(Head(header_row1), Head(header_row2))>>
         \o UnitHeaders_UntilGap(Tail(header_row1), Tail(header_row2))

\* unit availability, lines 67-83: a both-empty column is named Column_<i> and reading
\* goes on; only the trailing Column_ names are removed
UnitHeaders(header_row1, header_row2) ==
    PopTrailingColumns([k \in 1..Min(Len(header_row1), Len(header_row2)) |->
        IF MergePair(header_row1[k], header_row2[k]) # ""
        THEN MergePair(header_row1[k], header_row2[k])
        ELSE "Column_" \o IntToStr(k - 1)])

\* pending make ready lines 56-68, delinquency lines 58-70: break at the first both-empty column
RECURSIVE HeadersUntilGap(_, _, _)
HeadersUntilGap(header_row1, header_row2, k) ==
    IF k > Min(Len(header_row1), Len(header_row2)) THEN <<>>
    ELSE IF MergePair(header_row1[k], header_row2[k]) = "" THEN <<>>
    ELSE <<MergePair(header_row1[k], header_row2[k])>> \o HeadersUntilGap(header_row1, header_row2, k + 1)

\* market rent lines 62-73: the distinct non-blank parts of a column, in row order
RECURSIVE UniqueParts(_, _, _)
UniqueParts(header_rows, k, j) ==
    IF j > Len(header_rows) THEN <<>>
    ELSE LET rest == UniqueParts(header_rows, k, j + 1)
             part == Strip(header_rows[j][k])
         IN  IF part = "" THEN rest
             ELSE <<part>> \o SelectSeq(rest, LAMBDA p : p # part)

MarketHeaders(header_rows) ==
    PopTrailingColumns([k \in 1..(IF Len(header_rows) = 0 THEN 0 ELSE Len(header_rows[1])) |->
        IF Len(UniqueParts(header_rows, k, 1)) > 0
        THEN JoinSpace(UniqueParts(header_rows, k, 1))
        ELSE "Column_" \o IntToStr(k - 1)])

\* the first column, in order, whose name is a clean-up target and is repeated; 0 when none
FirstRepeatedTarget(headers, targets) ==
    IF HasRepeated(headers, targets)
    THEN CHOOSE k \in 1..Len(headers) :
            /\ targets[k] /\ Cardinality(Occurrences(headers, headers[k])) > 1
            /\ \A j \in 1..(k - 1) : ~(targets[j] /\ Cardinality(Occurrences(headers, headers[j])) > 1)
    ELSE 0

(***************************************************************************)
(* Unit Availability Details parser (src/parsers/resanalytics_unit_parser.py) *)
(***************************************************************************)
IsUnitHeader(row) == Contains(StrCell(row[1]), "Unit") /\ Contains(StrCell(row[2]), "Resident")

\* line 94
IsUnitSectionRow(row_data) ==
    LET first_cell == IF Len(row_data) > 0 THEN Strip(row_data[1]) ELSE ""
    IN  /\ first_cell # ""
        /\ Contains(first_cell, " - ")
        /\ \A k \in 2..Min(3, Len(row_data)) : Strip(row_data[k]) = ""

\* sections_data[name] = []: a new key goes last, a repeated key is emptied in place
OpenSection(secs, name) ==
    IF \E k \in 1..Len(secs) : secs[k].name = name
    THEN [k \in 1..Len(secs) |-> IF secs[k].name = name THEN [name |-> name, idx |-> <<>>] ELSE secs[k]]
    ELSE Append(secs, [name |-> name, idx |-> <<>>])

AppendToSection(secs, name, i) ==
    [k \in 1..Len(secs) |-> IF secs[k].name = name THEN [secs[k] EXCEPT !.idx = Append(@, i)] ELSE secs[k]]

\* lines 89-100; current is "" for None
RECURSIVE UnitSections(_, _, _, _, _)
UnitSections(grid, i, ncols, current, secs) ==
    IF i > Len(grid) THEN secs
    ELSE LET row_data == FirstCells(grid[i], ncols)
             first_cell == IF Len(row_data) > 0 THEN Strip(row_data[1]) ELSE ""
         IN  IF IsUnitSectionRow(row_data)
             THEN UnitSections(grid, i + 1, ncols, first_cell, OpenSection(secs, first_cell))
             ELSE IF first_cell # "" /\ current # ""
             THEN UnitSections(grid, i + 1, ncols, current, AppendToSection(secs, current, i))
             ELSE UnitSections(grid, i + 1, ncols, current, secs)

IsUnitAmountColumn(col) == Contains(Lower(col), "rent") \/ Contains(Lower(col), "deposit")

\* lines 111-112
UnitCleanText(s) == RemoveChars(s, ",$")

\* rows 1 and 2 are read without a length check (lines 31, 37)
UnitMetadataRows == 3

\* parse_resanalytics_unit_availability
UnitResult(grid) ==
    LET header_start == FirstRowWhere([i \in 1..Len(grid) |-> IsUnitHeader(grid[i])])
        headers == UnitHeaders(grid[header_start], grid[header_start + 1])
        secs == SelectSeq(UnitSections(grid, header_start + 2, Len(headers), "", <<>>),
                          LAMBDA s : Len(s.idx) > 0)
        names == {secs[k].name : k \in 1..Len(secs)}
        of(name) == CHOOSE k \in 1..Len(secs) : secs[k].name = name
    IN  IF Len(grid) < UnitMetadataRows \/ header_start = Len(grid)
        THEN [raised |-> "IndexError", tables |-> NoTables, trace |-> NoTables]
        ELSE IF header_start = 0 THEN [raised |-> "", tables |-> NoTables, trace |-> NoTables]
        \* a repeated rent/deposit column: df[col] is a frame without .str (line 111)
        ELSE IF Len(secs) > 0 /\ HasRepeated(headers, [k \in 1..Len(headers) |-> IsUnitAmountColumn(headers[k])])
        THEN [raised |-> "AttributeError", tables |-> NoTables, trace |-> NoTables]
        ELSE [raised |-> "",
              tables |-> [name \in names |->
                            LET rows == RowsAt(grid, secs[of(name)].idx, Len(headers))
                            IN  NumericTable(headers, rows,
                                    [k \in 1..Len(headers) |-> IsUnitAmountColumn(headers[k])],
                                    [r \in 1..Len(rows) |-> [k \in 1..Len(headers) |-> UnitCleanText(rows[r][k])]])],
              trace |-> [name \in names |-> [header_row |-> header_start, row_idx |-> secs[of(name)].idx]]]

(***************************************************************************)
(* Pending Make Ready parser (src/parsers/pending_make_parser.py)          *)
(***************************************************************************)
IsPendingHeader(row) == Contains(StrCell(row[1]), "Property") /\ Contains(StrCell(row[2]), "Date")

\* pd.to_datetime(series, errors='coerce') on text: the sheets carry dates written
\* MM/DD/YYYY; every other text of the sheets is no date in any format and becomes NaT
IsDateText(s) ==
    /\ Len(s) = 10
    /\ CharAt(s, 3) = "/" /\ CharAt(s, 6) = "/"
    /\ AllDigits(SubSeq(s, 1, 2)) /\ AllDigits(SubSeq(s, 4, 5)) /\ AllDigits(SubSeq(s, 7, 10))
    /\ DigitsToNat(SubSeq(s, 1, 2)) \in 1..12
    /\ DigitsToNat(SubSeq(s, 4, 5)) \in 1..28

NaT == [kind |-> "nat", text |-> "", neg |-> FALSE, whole |-> 0, frac |-> ""]

DateVal(s) == [kind |-> "date", text |-> s, neg |-> FALSE, whole |-> 0, frac |-> ""]

ToDatetime(s) == IF IsDateText(Strip(s)) THEN DateVal(Strip(s)) ELSE NaT

IsBedroomsColumn(col) == Contains(Lower(col), "bedrooms")

IsDateColumn(col) == ~IsBedroomsColumn(col) /\ Contains(Lower(col), "date")

\* lines 78-86
PendingTable(headers, rows) ==
    LET t == NumericTable(headers, rows, [k \in 1..Len(headers) |-> IsBedroomsColumn(headers[k])], rows)
    IN  [columns |-> headers,
         dtypes |-> [k \in 1..Len(headers) |->
                        IF IsDateColumn(headers[k]) THEN "datetime64" ELSE t.dtypes[k]],
         rows |-> [r \in 1..Len(rows) |->
                     [k \in 1..Len(headers) |->
                         IF IsDateColumn(headers[k]) THEN ToDatetime(rows[r][k]) ELSE t.rows[r][k]]]]

\* what a repeated column name raises: to_numeric(frame) a TypeError, to_datetime(frame) a ValueError
PendingException(headers) ==
    LET k == FirstRepeatedTarget(headers, [j \in 1..Len(headers) |-> IsBedroomsColumn(headers[j]) \/ IsDateColumn(headers[j])])
    IN  IF k = 0 THEN "" ELSE IF IsBedroomsColumn(headers[k]) THEN "TypeError" ELSE "ValueError"

\* parse_pending_make_ready
PendingResult(grid) ==
    LET header_start == FirstRowWhere([i \in 1..Len(grid) |-> IsPendingHeader(grid[i])])
        headers == HeadersUntilGap(grid[header_start], grid[header_start + 1], 1)
        idx == NonBlankRowIndices(grid, header_start + 2, Len(headers))
        make_ready_data == RowsAt(grid, idx, Len(headers))
    IN  IF header_start = 0 THEN Result("", "make_ready_data", EmptyTable, 0, <<>>)
        ELSE IF header_start = Len(grid) THEN Result("IndexError", "make_ready_data", EmptyTable, 0, <<>>)
        ELSE IF Len(make_ready_data) = 0 THEN Result("", "make_ready_data", EmptyTable, 0, <<>>)
        ELSE IF PendingException(headers) # ""
             THEN Result(PendingException(headers), "make_ready_data", EmptyTable, 0, <<>>)
        ELSE Result("", "make_ready_data", PendingTable(headers, make_ready_data), header_start, idx)

(***************************************************************************)
(* Delinquency Summary parser (src/parsers/resaranalytics_delinquency_parser.py) *)
(***************************************************************************)
IsDelinquencyHeader(row) == Contains(StrCell(row[1]), "Property") /\ Contains(StrCell(row[2]), "Total")

\* lines 74-83: the footer rows end the table, blank rows are skipped
RECURSIVE DelinquencyRowIndices(_, _, _)
DelinquencyRowIndices(grid, i, ncols) ==
    IF i > Len(grid) THEN <<>>
    ELSE LET row_data == FirstCells(grid[i], ncols)
             first_cell == IF Len(row_data) > 0 THEN Strip(row_data[1]) ELSE ""
         IN  IF Contains(first_cell, "UserId") \/ Contains(first_cell, "Date :") \/ Contains(first_cell, "Time :")
             THEN <<>>
             ELSE (IF AnyNonBlank(row_data) THEN <<i>> ELSE <<>>)
                  \o DelinquencyRowIndices(grid, i + 1, ncols)

IsDelinquencyAmountColumn(col) ==
    \E w \in {"total", "charges", "owed", "future"} : Contains(Lower(col), w)

\* parse_resaranalytics_delinquency
DelinquencyResult(grid) ==
    LET header_start == FirstRowWhere([i \in 1..Len(grid) |-> IsDelinquencyHeader(grid[i])])
        headers == HeadersUntilGap(grid[header_start], grid[header_start + 1], 1)
        idx == DelinquencyRowIndices(grid, header_start + 2, Len(headers))
        delinq_data == RowsAt(grid, idx, Len(headers))
    IN  \* row 0 is read without a length check (line 31)
        IF Len(grid) = 0 THEN Result("IndexError", "delinquency_data", EmptyTable, 0, <<>>)
        ELSE IF header_start = 0 THEN Result("", "delinquency_data", EmptyTable, 0, <<>>)
        ELSE IF header_start = Len(grid) THEN Result("IndexError", "delinquency_data", EmptyTable, 0, <<>>)
        ELSE IF Len(delinq_data) = 0 THEN Result("", "delinquency_data", EmptyTable, 0, <<>>)
        ELSE IF HasRepeated(headers, [k \in 1..Len(headers) |-> IsDelinquencyAmountColumn(headers[k])])
             THEN Result("AttributeError", "delinquency_data", EmptyTable, 0, <<>>)
        ELSE Result("", "delinquency_data",
                    NumericTable(headers, delinq_data,
                        [k \in 1..Len(headers) |-> IsDelinquencyAmountColumn(headers[k])],
                        [r \in 1..Len(delinq_data) |-> [k \in 1..Len(headers) |-> UnitCleanText(delinq_data[r][k])]]),
                    header_start, idx)

(***************************************************************************)
(* Market Rent Schedule parser (src/parsers/resanalytics_market_parser.py) *)
(***************************************************************************)
IsMarketHeader(row) == Contains(StrCell(row[1]), "Property") /\ Contains(StrCell(row[2]), "Name")

MarketHeaderRows == 3

\* rows 1 and 2 are read without a length check (lines 31, 37)
MarketMetadataRows == 3

IsMarketAmountColumn(col) ==
    \E w \in {"units", "rent", "average"} : Contains(Lower(col), w)

\* line 96: str.replace(',', '') and then the whole-cell replace('', '0')
MarketCleanText(s) == IF RemoveChars(s, ",") = "" THEN "0" ELSE RemoveChars(s, ",")

\* parse_resanalytics_market_rent
MarketResult(grid) ==
    LET header_start == FirstRowWhere([i \in 1..Len(grid) |-> IsMarketHeader(grid[i])])
        last == Min(header_start + MarketHeaderRows - 1, Len(grid))
        header_rows == [j \in 1..(last - header_start + 1) |-> grid[header_start + j - 1]]
        headers == MarketHeaders(header_rows)
        idx == NonBlankRowIndices(grid, header_start + Len(header_rows), Len(headers))
        market_data == RowsAt(grid, idx, Len(headers))
    IN  IF Len(grid) < MarketMetadataRows THEN Result("IndexError", "market_rent_data", EmptyTable, 0, <<>>)
        ELSE IF header_start = 0 \/ Len(market_data) = 0 THEN Result("", "market_rent_data", EmptyTable, 0, <<>>)
        ELSE IF HasRepeated(headers, [k \in 1..Len(headers) |-> IsMarketAmountColumn(headers[k])])
             THEN Result("AttributeError", "market_rent_data", EmptyTable, 0, <<>>)
        ELSE Result("", "market_rent_data",
                    NumericTable(headers, market_data,
                        [k \in 1..Len(headers) |-> IsMarketAmountColumn(headers[k])],
                        [r \in 1..Len(market_data) |-> [k \in 1..Len(headers) |-> MarketCleanText(market_data[r][k])]]),
                    header_start, idx)

(***************************************************************************)
(* Residents on Notice parser (src/parsers/residents_on_notice_parser.py)  *)
(***************************************************************************)
\* lines 44-46: the four names are cells of the row (list membership, no strip)
IsNoticeHeader(row) ==
    \A w \in {"Property", "Unit", "Resident", "Notice Date"} : \E k \in 1..Len(row) : row[k] = w

date_columns == {"Notice Date", "Moveout Date"}

\* lines 65-74: to_datetime(errors='coerce') on the date columns; the ValueError of a
\* repeated column name is swallowed and the column stays text
NoticeTable(headers, rows) ==
    LET converted == [k \in 1..Len(headers) |->
                         headers[k] \in date_columns /\ Cardinality(Occurrences(headers, headers[k])) = 1]
    IN  [columns |-> headers,
         dtypes |-> [k \in 1..Len(headers) |-> IF converted[k] THEN "datetime64" ELSE "object"],
         rows |-> [r \in 1..Len(rows) |->
                     [k \in 1..Len(headers) |->
                         IF converted[k] THEN ToDatetime(rows[r][k]) ELSE StrVal(rows[r][k])]]]

\* parse_residents_on_notice
NoticeResult(grid) ==
    LET header_row == FirstRowWhere([i \in 1..Len(grid) |-> IsNoticeHeader(grid[i])])
        headers == IF header_row = 0 THEN <<>> ELSE NonBlankStripped(grid[header_row])
        idx == IF header_row = 0 THEN <<>> ELSE NonBlankRowIndices(grid, header_row + 1, Len(headers))
        resident_data == RowsAt(grid, idx, Len(headers))
    IN  IF Len(resident_data) = 0 THEN Result("", "residents_data", EmptyTable, 0, <<>>)
        ELSE Result("", "residents_data", NoticeTable(headers, resident_data), header_row, idx)

(***************************************************************************)
(* File type detection (identify_* of each parser, src/parsers/file_parser.py) *)
(***************************************************************************)
EndsWith(s, w) == Len(w) <= Len(s) /\ SubSeq(s, Len(s) - Len(w) + 1, Len(s)) = w

\* the length of the longest run of characters of chars that ends s
RECURSIVE TrailingRun(_, _)
TrailingRun(s, chars) ==
    IF Len(s) > 0 /\ CharIn(CharAt(s, Len(s)), chars)
    THEN 1 + TrailingRun(SubSeq(s, 1, Len(s) - 1), chars)
    ELSE 0

\* re.sub(r'_[chars]+\.xlsx$', '', s): the property code and the extension are cut
StripPropertyCode(s, chars) ==
    IF ~EndsWith(s, ".xlsx") THEN s
    ELSE LET body == SubSeq(s, 1, Len(s) - 5)
             n == TrailingRun(body, chars)
         IN  IF n >= 1 /\ Len(body) > n /\ CharAt(body, Len(body) - n) = "_"
             THEN SubSeq(body, 1, Len(body) - n - 1)
             ELSE s

\* the position of the first c in s at or after i, 0 when there is none
RECURSIVE FindChar(_, _, _)
FindChar(s, c, i) ==
    IF i > Len(s) THEN 0
    ELSE IF CharAt(s, i) = c THEN i
    ELSE FindChar(s, c, i + 1)

\* re.sub(r'\([^)]*\)', '', s)
RECURSIVE RemoveParenthesized(_)
RemoveParenthesized(s) ==
    LET open == FindChar(s, "(", 1)
        close == IF open = 0 THEN 0 ELSE FindChar(s, ")", open + 1)
    IN  IF open = 0 THEN s
        ELSE IF close = 0
             THEN SubSeq(s, 1, open) \o RemoveParenthesized(SubSeq(s, open + 1, Len(s)))
             ELSE SubSeq(s, 1, open - 1) \o RemoveParenthesized(SubSeq(s, close + 1, Len(s)))

\* re.sub(r'\^[^_]*', '', s)
RECURSIVE RemoveCaretRuns(_)
RemoveCaretRuns(s) ==
    LET caret == FindChar(s, "^", 1)
        stop == IF caret = 0 THEN 0 ELSE FindChar(s, "_", caret + 1)
    IN  IF caret = 0 THEN s
        ELSE IF stop = 0 THEN SubSeq(s, 1, caret - 1)
        ELSE SubSeq(s, 1, caret - 1) \o RemoveCaretRuns(SubSeq(s, stop, Len(s)))

\* str.replace(old, new)
RECURSIVE ReplaceText(_, _, _)
ReplaceText(s, old, new) ==
    IF Len(s) < Len(old) THEN s
    ELSE IF SubSeq(s, 1, Len(old)) = old
         THEN new \o ReplaceText(SubSeq(s, Len(old) + 1, Len(s)), old, new)
         ELSE CharAt(s, 1) \o ReplaceText(SubSeq(s, 2, Len(s)), old, new)

\* os.path.basename
RECURSIVE Basename(_)
Basename(file_path) ==
    LET slash == FindChar(file_path, "/", 1)
    IN  IF slash = 0 THEN file_path ELSE Basename(SubSeq(file_path, slash + 1, Len(file_path)))

identify_resanalytics_box_file(filename) ==
    StartsWith(StripPropertyCode(Lower(filename), LowerChars \o Digits), "resanalytics_box")

identify_work_order_file(filename) ==
    StartsWith(StripPropertyCode(Lower(filename), LowerChars \o Digits), "work_order")

identify_resanalytics_unit_file(filename) ==
    StartsWith(StripPropertyCode(Lower(filename), LowerChars), "resanalytics_unit")

identify_resanalytics_market_file(filename) ==
    StartsWith(StripPropertyCode(Lower(filename), LowerChars), "resanalytics_market")

identify_resanalytic_lease_file(filename) ==
    StartsWith(StripPropertyCode(Lower(filename), LowerChars), "resanalytic_lease")

identify_budget_comparison_file(filename) ==
    LET base_name == StripPropertyCode(Lower(filename), LowerChars)
    IN  StartsWith(Strip(RemoveCaretRuns(RemoveParenthesized(base_name))), "budget_comparison")

identify_pending_make_file(filename) ==
    LET base_name == StripPropertyCode(Lower(filename), LowerChars)
    IN  StartsWith(ReplaceText(base_name, "._", "_"), "pending_make")

identify_resaranalytics_delinquency_file(filename) ==
    StartsWith(StripPropertyCode(Lower(filename), LowerChars), "resaranalytics_delinquency")

identify_residents_on_notice_file(filename) ==
    LET base_name == StripPropertyCode(Lower(filename), LowerChars)
    IN  \/ StartsWith(base_name, "residents_on_notice")
        \/ (Contains(base_name, "residents") /\ Contains(base_name, "notice"))

required_sheets == {"INPUT", "Cover", "Occ", "Fin", "Col", "Rent Cash"}

\* files maps the paths that exist to their workbooks; a path that does not exist is
\* taken as the file name, and pd.ExcelFile then fails on it (the bare except passes)
identify_comprehensive_6sheet_file(file_path, files) ==
    LET filename == IF file_path \in DOMAIN files THEN Basename(file_path) ELSE file_path
        base_name == Lower(filename)
    IN  /\ Contains(base_name, "weekly report") /\ EndsWith(base_name, ".xlsx")
        /\ file_path \in DOMAIN files
        /\ files[file_path].readable
        /\ required_sheets \subseteq files[file_path].sheet_names

identify_comprehensive_internal_file(filename) ==
    LET base_name == Lower(filename)
    IN  Contains(base_name, "weekly report") /\ EndsWith(base_name, ".xlsx")

\* the lambda of the comprehensive_weekly entry
identify_comprehensive_weekly_file(filename) == Contains(Lower(filename), "weekly report")

(***************************************************************************)
(* Lease Expiration parser (src/parsers/resanalytic_lease_parser.py): the  *)
(* exception that leaves it, "" when it returns                            *)
(***************************************************************************)
IsLeaseHeader(row) == Contains(row[1], "Property") /\ Contains(row[2], "Address")

\* 'Property' in str(row.iloc[0]) and 'Address' in str(row.iloc[1]) on a one-column sheet
LeaseHeaderTestRaises(grid) ==
    \E i \in 1..Len(grid) : Len(grid[i]) < 2 /\ Contains(grid[i][1], "Property")

LeaseRaised(grid) ==
    IF Len(grid) < 3 THEN "IndexError"
    ELSE IF LeaseHeaderTestRaises(grid) THEN "IndexError"
    ELSE LET header_row == FirstRowWhere([i \in 1..Len(grid) |-> IsLeaseHeader(grid[i])])
             headers == IF header_row = 0 THEN <<>> ELSE NonBlankStripped(grid[header_row])
             idx == IF header_row = 0 THEN <<>> ELSE NonBlankRowIndices(grid, header_row + 1, Len(headers))
         IN  IF idx # <<>> /\ HasRepeated(headers, {"Units", "MTM"}) THEN "AttributeError" ELSE ""

(***************************************************************************)
(* Comprehensive weekly report parsers                                     *)
(* (comprehensive_internal_parser.py, comprehensive_6sheet_parser.py): the *)
(* sheets they read by name and whether the result carries an error        *)
(***************************************************************************)
possible_occupancy_names == {"Occupancy", "Occ", "Occupancy Data"}

HistoryStartRow == 20

HistoryDateColumn == 13

\* lines 116-121: df.iloc[i, 13] for the rows from 20 on, outside any try
OccupancyScanRaises(shape) == shape[1] > HistoryStartRow /\ shape[2] <= HistoryDateColumn

\* parse_occupancy_sheet: the exception that leaves it; a workbook without an
\* occupancy sheet gives the empty dictionaries (line 67)
OccupancySheetRaised(workbook) ==
    IF ~workbook.readable THEN "BadZipFile"
    ELSE IF workbook.sheet_names \cap possible_occupancy_names = {} THEN ""
    ELSE IF OccupancyScanRaises(workbook.occupancy_shape) THEN "IndexError"
    ELSE ""

ComprehensiveKeys == {"metadata", "current_week_data", "historical_data", "file_path", "parser_type"}

\* parse_comprehensive_internal_report: never raises; the exception of the occupancy
\* sheet becomes the key 'error' (parse_financial_sheet catches its own)
InternalReport(workbook) ==
    LET e == OccupancySheetRaised(workbook)
    IN  [raised |-> "",
         keys |-> ComprehensiveKeys \cup (IF e = "" THEN {} ELSE {"error"}),
         error |-> IF e = "" THEN "" ELSE "Error parsing comprehensive internal report: " \o e,
         parser_type |-> "comprehensive_internal"]

\* parse_comprehensive_6sheet_report: each sheet parser catches every exception of its
\* own, a missing sheet included, and returns its empty dictionaries
SixSheetReport(workbook) ==
    [raised |-> "", keys |-> ComprehensiveKeys, error |-> "", parser_type |-> "comprehensive_6sheet"]

(***************************************************************************)
(* Dispatcher (src/parsers/file_parser.py)                                 *)
(***************************************************************************)
FILE_PATTERNS ==
    << "resanalytics_box", "work_order", "resanalytics_unit", "resanalytics_market",
       "resanalytic_lease", "budget_comparison", "pending_make", "resaranalytics_delinquency",
       "residents_on_notice", "comprehensive_6sheet", "comprehensive_internal",
       "comprehensive_weekly" >>

\* pattern_info['identifier'](name) of entry k
Identifier(k, name, files) ==
    CASE k = 1 -> identify_resanalytics_box_file(name)
      [] k = 2 -> identify_work_order_file(name)
      [] k = 3 -> identify_resanalytics_unit_file(name)
      [] k = 4 -> identify_resanalytics_market_file(name)
      [] k = 5 -> identify_resanalytic_lease_file(name)
      [] k = 6 -> identify_budget_comparison_file(name)
      [] k = 7 -> identify_pending_make_file(name)
      [] k = 8 -> identify_resaranalytics_delinquency_file(name)
      [] k = 9 -> identify_residents_on_notice_file(name)
      [] k = 10 -> identify_comprehensive_6sheet_file(name, files)
      [] k = 11 -> identify_comprehensive_internal_file(name)
      [] k = 12 -> identify_comprehensive_weekly_file(name)

\* line 179: the full path first, then the file name
Matches(k, file_path, files) ==
    Identifier(k, file_path, files) \/ Identifier(k, Basename(file_path), files)

identify_file_type_LastWins(file_path, files) ==
    LET hits == {k \in 1..Len(FILE_PATTERNS) : Matches(k, file_path, files)}
    IN  IF hits = {} THEN 0 ELSE CHOOSE k \in hits : \A j \in hits : j <= k

\* the position in FILE_PATTERNS of the entry returned, 0 for None
identify_file_type(file_path, files) ==
    LET hits == {k \in 1..Len(FILE_PATTERNS) : Matches(k, file_path, files)}
    IN  IF hits = {} THEN 0 ELSE SetMin(hits)

\* a report parser that reads the first sheet: pd.read_excel fails on a file that is
\* no workbook, otherwise the parser's own exception or its dictionary
SheetReport(workbook, raised_by_parser, data_key, parser_type) ==
    [raised |-> IF ~workbook.readable THEN "BadZipFile" ELSE raised_by_parser,
     keys |-> {"metadata", data_key, "file_path", "parser_type"},
     error |-> "",
     parser_type |-> parser_type]

\* pattern_info['parser'](file_path) of entry k
Parser(k, workbook) ==
    LET grid == workbook.df_raw
    IN  CASE k = 1 -> SheetReport(workbook, "", "data_sections", "resanalytics_box_score")
          [] k = 2 -> SheetReport(workbook, WorkOrderResult(grid).raised, "work_orders", "work_order_report")
          [] k = 3 -> SheetReport(workbook, UnitResult(grid).raised, "data_sections", "resanalytics_unit_availability")
          [] k = 4 -> SheetReport(workbook, MarketResult(grid).raised, "market_rent_data", "resanalytics_market_rent")
          [] k = 5 -> SheetReport(workbook, LeaseRaised(grid), "lease_expiration_data", "resanalytic_lease_expiration")
          [] k = 6 -> SheetReport(workbook, BudgetResult(grid).raised, "budget_data", "budget_comparison")
          [] k = 7 -> SheetReport(workbook, PendingResult(grid).raised, "make_ready_data", "pending_make_ready")
          [] k = 8 -> SheetReport(workbook, DelinquencyResult(grid).raised, "delinquency_data", "resaranalytics_delinquency")
          [] k = 9 -> SheetReport(workbook, NoticeResult(grid).raised, "residents_data", "residents_on_notice")
          [] k = 10 -> SixSheetReport(workbook)
          [] k = 11 -> InternalReport(workbook)
          [] k = 12 -> InternalReport(workbook)

\* what parse_file gives: the exception that leaves it ("" when it returns) and the
\* dictionary returned, by its keys and the values of error, file_type (on success the
\* pattern of file_type_info), supported_patterns and parser_type
Outcome(raised, keys, error, file_type, supported_patterns, parser_type) ==
    [raised |-> raised, keys |-> keys, error |-> error, file_type |-> file_type,
     supported_patterns |-> supported_patterns, parser_type |-> parser_type]

parse_file_UnknownRaises(file_path, files) ==
    IF file_path \notin DOMAIN files
    THEN Outcome("FileNotFoundError", {}, "", "", <<>>, "")
    ELSE LET filename == Basename(file_path)
             pattern_info == identify_file_type(file_path, files)
         IN  IF pattern_info = 0
             THEN Outcome("ValueError", {}, "", "", <<>>, "")
             ELSE LET result == Parser(pattern_info, files[file_path])
                  IN  IF result.raised # ""
                      THEN Outcome("", {"error", "file_path", "file_type"},
                                   "Error parsing " \o filename \o ": " \o result.raised,
                                   FILE_PATTERNS[pattern_info], <<>>, "")
                      ELSE Outcome("", result.keys \cup {"file_type_info"}, result.error,
                                   FILE_PATTERNS[pattern_info], <<>>, result.parser_type)

parse_file_ParserRaises(file_path, files) ==
    IF file_path \notin DOMAIN files
    THEN Outcome("FileNotFoundError", {}, "", "", <<>>, "")
    ELSE LET filename == Basename(file_path)
             pattern_info == identify_file_type(file_path, files)
         IN  IF pattern_info = 0
             THEN Outcome("", {"error", "file_path", "supported_patterns"},
                          "Unknown file type for: " \o filename, "", FILE_PATTERNS, "")
             ELSE LET result == Parser(pattern_info, files[file_path])
                  IN  IF result.raised # ""
                      THEN Outcome(result.raised, {}, "", "", <<>>, "")
                      ELSE Outcome("", result.keys \cup {"file_type_info"}, result.error,
                                   FILE_PATTERNS[pattern_info], <<>>, result.parser_type)

parse_file(file_path, files) ==
    IF file_path \notin DOMAIN files
    THEN Outcome("FileNotFoundError", {}, "", "", <<>>, "")
    ELSE LET filename == Basename(file_path)
             pattern_info == identify_file_type(file_path, files)
         IN  IF pattern_info = 0
             THEN Outcome("", {"error", "file_path", "supported_patterns"},
                          "Unknown file type for: " \o filename, "", FILE_PATTERNS, "")
             ELSE LET result == Parser(pattern_info, files[file_path])
                  IN  IF result.raised # ""
                      THEN Outcome("", {"error", "file_path", "file_type"},
                                   "Error parsing " \o filename \o ": " \o result.raised,
                                   FILE_PATTERNS[pattern_info], <<>>, "")
                      ELSE Outcome("", result.keys \cup {"file_type_info"}, result.error,
                                   FILE_PATTERNS[pattern_info], <<>>, result.parser_type)

(***************************************************************************)
(* Centralized historical data (src/utils/historical_data_service.py) on   *)
(* the S3 storage service (src/utils/s3_service.py), fed by the upload     *)
(* handler (src/utils/upload_handler.py) and the loader (src/data/loader.py)*)
(* A date is the number of its week: the isoformat() texts of midnight     *)
(* datetimes are ordered as their dates.  A table is its number of rows.   *)
(***************************************************************************)
\* the attributes S3DataService.__init__ sets (s3_service.py lines 17-31)
S3Attributes == {"bucket_name", "s3_prefix", "s3_client"}

\* _get_historical_data_key, lines 37-49: the key, or the AttributeError of
\* self.storage.data_prefix on a storage object without that attribute
get_historical_data_key_raises(attributes) == "data_prefix" \notin attributes

\* the S3 object of a property's history: absent, or the JSON document
NoObject == [exists |-> FALSE, weekly_occupancy_data |-> <<>>]

HistoryObject(records) == [exists |-> TRUE, weekly_occupancy_data |-> records]

\* S3DataService.file_exists, lines 145-154: any ClientError of head_object gives False
file_exists(present, fault) == present /\ fault # "head_object"

\* load_historical_data, lines 119-142: None (found FALSE) when file_exists gives False or
\* read_file raises; otherwise the document
load_historical_data(object, fault) ==
    IF ~file_exists(object.exists, fault) \/ fault = "get_object"
    THEN [found |-> FALSE, weekly_occupancy_data |-> <<>>]
    ELSE [found |-> TRUE, weekly_occupancy_data |-> object.weekly_occupancy_data]

\* save_historical_data, lines 144-173: write_file gives False on a ClientError of put_object
\* (s3_service.py lines 128-143); its value is not read and True is returned
save_historical_data(object, records, fault) ==
    [object |-> IF fault = "put_object" THEN object ELSE HistoryObject(records),
     success |-> TRUE]

\* the value of parsed_data[report][key], a table, as extract_week_data_from_reports reads
\* it: `report in parsed_data`, .get(key), len(); 0 is the default of week_data
CountOf(parsed_data, report, key) ==
    IF report \in DOMAIN parsed_data
    THEN IF key \in DOMAIN parsed_data[report] THEN parsed_data[report][key] ELSE 0
    ELSE 0

\* extract_week_data_from_reports, lines 175-339 (date, work_orders_count and
\* make_readies_count of week_data)
extract_week_data_from_reports(parsed_data, report_date) ==
    [date |-> report_date,
     make_readies_count |-> CountOf(parsed_data, "pending_make_ready", "make_ready_data"),
     work_orders_count |-> CountOf(parsed_data, "work_order_report", "work_orders")]

\* load_property_data, lines 43-101: folder holds the parse_file results of the files of
\* week/property by file name; the result is keyed by 'raw_data', or by 'error' when the
\* folder has no file
load_property_data(folder) ==
    IF DOMAIN folder = {} THEN [error |-> [message |-> 0]]
    ELSE [raw_data |->
            [t \in {folder[f].parser_type : f \in DOMAIN folder} |->
                LET f == CHOOSE g \in DOMAIN folder : folder[g].parser_type = t
                IN  Put(NoTables, folder[f].data_key, folder[f].rows)]]

DatesOf(records) == {records[i].date : i \in 1..Len(records)}

\* list.sort(key=lambda x: x['date']): stable
RECURSIVE SortByDate(_)
SortByDate(records) ==
    IF Len(records) <= 1 THEN records
    ELSE LET first == CHOOSE i \in 1..Len(records) :
                          /\ \A j \in 1..Len(records) : records[i].date <= records[j].date
                          /\ \A j \in 1..(i - 1) : records[j].date # records[i].date
         IN  <<records[first]>>
             \o SortByDate([k \in 1..(Len(records) - 1) |-> IF k < first THEN records[k] ELSE records[k + 1]])

\* update_with_new_week_data, lines 381-396: append, or replace the first record of the
\* date, then sort
UpdatedRecords(records, week_data) ==
    SortByDate(IF week_data.date \notin DatesOf(records)
               THEN Append(records, week_data)
               ELSE LET first == CHOOSE i \in 1..Len(records) :
                                     /\ records[i].date = week_data.date
                                     /\ \A j \in 1..(i - 1) : records[j].date # week_data.date
                    IN  [records EXCEPT ![first] = week_data])

\* migrate_from_comprehensive_report, lines 448-470: a record is normalized and appended
\* unless its date is already there, then the list is sorted
RECURSIVE MigratedAppend(_, _)
MigratedAppend(records, historical_records) ==
    IF Len(historical_records) = 0 THEN records
    ELSE LET record == Head(historical_records)
             normalized_record == [date |-> record.date,
                                   make_readies_count |-> record.make_readies_count,
                                   work_orders_count |-> record.work_orders_count]
         IN  MigratedAppend(IF normalized_record.date \notin DatesOf(records)
                            THEN Append(records, normalized_record) ELSE records,
                            Tail(historical_records))

MigratedRecords(records, historical_records) == SortByDate(MigratedAppend(records, historical_records))

(***************************************************************************)
(* Sheets                                                                  *)
(***************************************************************************)
\* the longest sheet of the row-pool families
MaxRows == 5

RECURSIVE SeqsUpTo(_, _)
SeqsUpTo(S, n) ==
    IF n = 0 THEN {<<>>}
    ELSE LET shorter == SeqsUpTo(S, n - 1)
         IN  shorter \cup {Append(q, x) : q \in {p \in shorter : Len(p) = n - 1}, x \in S}

BlankRow == <<"", "", "", "">>

MetaRow == <<"Marbella (marbla)", "", "", "">>

AbbeyRow == <<"Abbey Lake (abbey)", "", "", "">>

DateRow == <<"Date = 08/04/2025-08/10/2025", "", "", "">>

DateRow2 == <<"As of Date = 08/11/2025 - 08/17/2025", "", "", "">>

AvailRow == <<"Availability", "", "", "">>

AvailShortRow == <<"Avail. Summary", "", "", "">>

ResidentRow == <<"Resident Activity", "", "", "">>

ConversionRow == <<"Conversion Ratios", "", "", "">>

ConversionOnlyRow == <<"Conversion", "", "", "">>

HdrRow == <<"Name", "Units", "Vacant Rented", "">>

HdrCodeRow == <<"Code", "Name", "Units", "">>

HdrGapRow == <<"Name", "", "Units", "Rent">>

HdrDupRow == <<"Name", "Units", "Units", "">>

DataRow == <<"1BR", "10", "2", "">>

DataRow2 == <<"2BR", "1,200", "n/a", "x">>

TotalRow == <<"Total", "30", "5", "">>

BoxPools ==
    { {AvailRow, HdrRow, DataRow, TotalRow},
      {AvailRow, HdrRow, DataRow2, BlankRow},
      {ResidentRow, AvailShortRow, HdrRow, DataRow},
      {AvailRow, ResidentRow, HdrRow, DataRow},
      {AvailRow, HdrCodeRow, HdrRow, DataRow},
      {ConversionRow, ConversionOnlyRow, HdrGapRow, DataRow},
      {AvailRow, HdrDupRow, HdrGapRow, DataRow2} }

\* rows of metadata: two property rows and two date rows
MetadataPool == {MetaRow, AbbeyRow, DateRow, DateRow2}

\* the end-to-end sheets: metadata rows, "Availability", the header, three data rows, "Total"
\* and a last row, blank or a footer
EndToEndGrid(d1, d2, d3, last) ==
    << <<"Box Score Summary", "", "", "">>,
       MetaRow,
       <<"Date = 08/04/2025-08/10/2025", "", "", "">>,
       BlankRow,
       AvailRow,
       HdrRow,
       d1, d2, d3,
       TotalRow,
       last >>

EndToEndDataRows == {DataRow, <<"2BR", "1,200", "1", "">>, <<"3BR", "8", "", "">>, <<"Studio", "n/a", "0", "">>}

FooterRow == <<"Printed 08/11/2025", "", "", "">>

EndToEndGrids ==
    {EndToEndGrid(d1, d2, d3, last) :
        d1 \in EndToEndDataRows, d2 \in EndToEndDataRows, d3 \in EndToEndDataRows, last \in {BlankRow, FooterRow}}

\* the longest sheet of the other reports' families
MaxReportRows == 4

BoxGrids ==
    (UNION {SeqsUpTo(pool, MaxRows) : pool \in BoxPools}) \cup EndToEndGrids
        \cup SeqsUpTo(MetadataPool, MaxReportRows)

GridsOf(pools) == UNION {SeqsUpTo(pool, MaxReportRows) : pool \in pools}

WorkOrderPools ==
    { {<<"WO#", "Brief Desc", "Status", "">>, <<"WO#", "", "Status", "Caller Phone">>,
       <<"101", "Leak", "Open", "555-1234">>, BlankRow},
      {<<"WO#", "Status", "WO#", "">>, <<"Work Orders", "Brief Desc", "Status", "Status">>,
       <<"101", "Leak", "Open", "555-1234">>, <<"Property=marbla", "", "", "">>},
      {<<"Property=marbla Status='Open '", "", "", "">>, <<"Property=abbey", "", "", "">>,
       <<"WO#", "Brief Desc", "Status", "">>, <<"101", "Leak", "Open", "555-1234">>} }

BudgetPools ==
    { {<<"Account", "", "MTD Actual", "MTD Budget">>, <<"4000", "Rent", "$1,234.00", "(500)">>,
       <<"4100", "Fees", "-", "-500">>, BlankRow},
      {<<"Code", "Account", "MTD Actual", "MTD Actual">>, <<"Account", "Unnamed: 1", "MTD Actual", "">>,
       <<"4000", "Rent", "$1,234.00", "(500)">>, <<"Marbella (marbla)", "", "", "">>},
      {<<"Account", "Name", "MTD Actual", "MTD Budget">>, <<"4000", "Rent", "$1,234.00", "(500)">>,
       <<"4100", "Fees", "-", "-500">>, <<"4200", "Other", "", "n/a">>} }

\* header rows around the two cells t0, t1 a report looks for, followed by the rows of data
HeaderPools(t0, t1, data) ==
    { {<<t0, t1, "Code", "Move">>, <<"", "", "", "In">>, <<t0, "", " Code", "">>} \cup data,
      {<<t0, t1, "", "Rent">>, <<"", "", "", "In">>, <<t0, t1, "Rent", "">>, BlankRow} \cup data,
      {<<t0, t1, "Rent", "Rent">>, <<"", "", "Market", "">>, <<"x", "", "", "">>} \cup data }

UnitPools ==
    HeaderPools("Unit", "Resident", {<<"1BR - A", "", "", "">>, <<"101", "Smith", "A1", "$1,200">>})

PendingPools ==
    HeaderPools("Property", "Date", {<<"marbla", "08/04/2025", "A1", "2">>})
    \cup { {<<"Property", "Date", "Bedrooms", "Bedrooms">>, <<"Property", "Date", "Date", "">>,
            <<"", "Vacated", "", "">>, <<"marbla", "TBD", "2", "">>} }

DelinquencyPools ==
    HeaderPools("Property", "Total", {<<"marbla", "$1,500.00", "A1", "2">>})
    \cup { {<<"Property", "Total", "Charges", "">>, <<"", "Charges", "", "">>,
            <<"marbla", "$1,500.00", "n/a", "">>, <<"UserId : admin", "", "", "">>} }

MarketPools ==
    HeaderPools("Property", "Name", {<<"marbla", "Marbella", "1,200", "">>})

NoticePools ==
    { {<<"Property", "Unit", "Resident", "Notice Date">>, <<"marbla", "101", "Smith", "08/04/2025">>,
       <<"marbla", "102", "Jones", "TBD">>, BlankRow} }

\* the workbooks of the dispatcher's files
NotAWorkbook == [readable |-> FALSE, sheet_names |-> {}, df_raw |-> <<>>, occupancy_shape |-> <<0, 0>>]

\* a report export: one sheet
SheetBook(grid) ==
    [readable |-> TRUE, sheet_names |-> {"Sheet1"}, df_raw |-> grid, occupancy_shape |-> <<0, 0>>]

\* a weekly report: its sheet names and the rows and columns of its occupancy sheet
WeeklyBook(sheet_names, occupancy_shape) ==
    [readable |-> TRUE, sheet_names |-> sheet_names, df_raw |-> <<BlankRow>>,
     occupancy_shape |-> occupancy_shape]

TwoRowSheet == <<MetaRow, BlankRow>>

BudgetSheet ==
    << <<"Budget Comparison", "", "", "">>, MetaRow, <<"Period = 08/2025", "", "", "">>, BlankRow,
       <<"Account", "Name", "MTD Actual", "MTD Budget">>,
       <<"4000", "Rent", "$1,234.00", "(500)">> >>

UnitSheet ==
    << <<"Unit Availability Details", "", "", "">>, MetaRow, <<"As Of = 08/04/2025", "", "", "">>,
       <<"Unit", "Resident", "Code", "Rent">>, <<"", "", "", "">>,
       <<"101", "Smith", "A1", "$1,200">> >>

RepeatedColumnSheet ==
    << <<"WO#", "Status", "WO#", "">>, <<"101", "Leak", "Open", "555-1234">>,
       <<"Unit", "Resident", "Rent", "Rent">> >>

NoticeSheet ==
    << <<"Property", "Unit", "Resident", "Notice Date">>, <<"marbla", "101", "Smith", "08/04/2025">>,
       <<"marbla", "102", "Jones", "TBD">> >>

DirectoryPath == "/tmp/data"

\* os.path.join
PathJoin(directory_path, filename) == directory_path \o "/" \o filename

\* the files a directory may hold: name and workbook
FilePool ==
    { <<"Budget_Comparison_marbla.xlsx", SheetBook(BudgetSheet)>>,
      <<"Budget_Comparison(with PTD)_marbla.xlsx", SheetBook(TwoRowSheet)>>,
      <<"ResAnalytics_Box_Score_Summary_55pharr.xlsx", SheetBook(EndToEndGrid(DataRow, DataRow2, DataRow, BlankRow))>>,
      <<"Work_Order_Report_marbla.xlsx", SheetBook(RepeatedColumnSheet)>>,
      <<"ResAnalytics_Unit_Availability_Details_marbla.xlsx", SheetBook(UnitSheet)>>,
      <<"ResAnalytics_Market_Rent_Schedule_marbla.xlsx", NotAWorkbook>>,
      <<"ResAnalytic_Lease_Expiration_marbla.xlsx", SheetBook(TwoRowSheet)>>,
      <<"Pending_Make._Ready_Unit_Details_marbla.xlsx", SheetBook(UnitSheet)>>,
      <<"ResARAnalytics_Delinquency_Summary_marbla.xlsx", SheetBook(BudgetSheet)>>,
      <<"Residents_on_Notice_marbla.xlsx", SheetBook(NoticeSheet)>>,
      <<"Marbella Weekly Report.xlsx", WeeklyBook({"Occupancy", "Financial"}, <<60, 20>>)>>,
      <<"Abbey Lake Weekly Report.xlsx", WeeklyBook({"Occupancy", "Financial"}, <<25, 10>>)>>,
      <<"Woodland Weekly Report.xlsx", WeeklyBook({"Summary"}, <<0, 0>>)>>,
      <<"55 PHARR Weekly Report.xlsx", WeeklyBook(required_sheets, <<60, 20>>)>>,
      <<"Weekly Report marbla.xlsx.bak", NotAWorkbook>>,
      <<"randomfile.xlsx", SheetBook(BudgetSheet)>>,
      <<"notes_marbla.txt", NotAWorkbook>> }

\* the most files a directory holds
MaxFiles == 2

\* os.listdir: the files of the directory, their names distinct, in the order listed
Listings ==
    {l \in SeqsUpTo(FilePool, MaxFiles) : \A i, j \in 1..Len(l) : i # j => l[i][1] # l[j][1]}

\* the paths that exist, with their workbooks
FilesOf(listing) ==
    [p \in {PathJoin(DirectoryPath, listing[i][1]) : i \in 1..Len(listing)} |->
        (CHOOSE f \in {listing[i] : i \in 1..Len(listing)} : PathJoin(DirectoryPath, f[1]) = p)[2]]

\* a second directory, named after the reports kept in it
ReportsDirectory == "/tmp/Weekly Reports"

\* the files of fs under another directory
Moved(fs, directory_path) ==
    [p \in {PathJoin(directory_path, Basename(q)) : q \in DOMAIN fs} |->
        fs[CHOOSE q \in DOMAIN fs : PathJoin(directory_path, Basename(q)) = p]]

MissingPaths == {PathJoin(DirectoryPath, "Budget_Comparison_gone.xlsx"), PathJoin(DirectoryPath, "randomfile.xlsx")}

MissingDirectory == "/tmp/nodata"

\* the calls made: parse_file on a path of a directory that holds at most that file,
\* parse_directory on a directory of any listing
Requests(listing) ==
    {[op |-> "parse_file", path |-> p, property_filter |-> ""] :
        p \in IF Len(listing) <= 1 THEN DOMAIN FilesOf(listing) \cup MissingPaths ELSE {}}
    \cup {[op |-> "parse_directory", path |-> DirectoryPath, property_filter |-> f] :
             f \in {"", "marbla"}}
    \cup {[op |-> "parse_directory", path |-> MissingDirectory, property_filter |-> ""]}

\* the weeks (dates) of the uploads and of the history
MaxWeeks == 2

Weeks == 1..MaxWeeks

\* the calls of the scripts, and the S3 requests that fail with a ClientError, in one behaviour
MaxCalls == 2

MaxFaults == 1

\* what parse_file gives for an uploaded report: its parser_type and the rows of its table
ParsedFile(parser_type, data_key, rows) == [parser_type |-> parser_type, data_key |-> data_key, rows |-> rows]

WorkOrderUpload(rows) ==
    [name |-> "Work_Order_Report_marbla.xlsx", content |-> ParsedFile("work_order_report", "work_orders", rows)]

PendingUpload(rows) ==
    [name |-> "Pending_Make._Ready_Unit_Details_marbla.xlsx",
     content |-> ParsedFile("pending_make_ready", "make_ready_data", rows)]

\* the files of one upload
UploadPool == { <<WorkOrderUpload(2), PendingUpload(1)>>, <<WorkOrderUpload(3)>> }

\* the folders week/property before the first upload: empty, or week 1 holds a work order report
InitialFolders ==
    { [w \in Weeks |-> NoTables],
      [w \in Weeks |-> IF w = 1 THEN Put(NoTables, WorkOrderUpload(3).name, WorkOrderUpload(3).content)
                       ELSE NoTables] }

\* a record of historical_data.weekly_occupancy_data of a comprehensive weekly report
ComprehensiveRecord(date, make_readies_count, work_orders_count) ==
    [date |-> date, occupancy_percent |-> 1,
     make_readies_count |-> make_readies_count, work_orders_count |-> work_orders_count]

\* the weekly_occupancy_data of the comprehensive reports given to the migration
MigrationPool ==
    { <<ComprehensiveRecord(1, 4, 5)>>,
      <<ComprehensiveRecord(2, 4, 5), ComprehensiveRecord(1, 4, 5)>>,
      <<ComprehensiveRecord(1, 4, 5), ComprehensiveRecord(1, 6, 7)>> }

Processes == {"dashboard", "script"}

Other(p) == IF p = "dashboard" THEN "script" ELSE "dashboard"

(***************************************************************************)
(* State                                                                   *)
(***************************************************************************)
VARIABLES
    report,             \* which report parser the dispatcher has chosen
    df_raw,             \* the sheet, read with header=None
    pc,                 \* position in the parser
    section_locations,  \* Box Score: section name -> start row, in dict order
    next_section,       \* Box Score: position of the extraction loop in section_locations
    data_sections,      \* the tables of the result, by key
    metadata,           \* Box Score: the metadata keys of the result
    trace,              \* per extracted table: the grid rows read as header and as records
    raised,             \* the exception that left the parser, "" when none
    files,              \* dispatcher: the paths that exist -> their workbooks
    listdir,            \* dispatcher: the names os.listdir gives, in its order
    request,            \* dispatcher: the call made, parse_file or parse_directory
    excel_files,        \* parse_directory: the names selected
    next_file,          \* parse_directory: position of the loop in excel_files
    results,            \* parse_directory: files_parsed, errors, summary
    returned,           \* parse_file: what the call gave
    call_pc,            \* dispatcher: position in the call
    storage_attributes, \* history: the attributes of the storage object given to the services
    bucket,             \* history: the S3 objects (history document, week folders, backups)
    faults,             \* history: the S3 requests that have failed with a ClientError
    procs,              \* history: per process, the call it is in and its local values
    upload              \* process_upload: the files, the loop position and upload_results

parser_vars == <<report, df_raw, pc, section_locations, next_section, data_sections, metadata, trace, raised>>

dispatch_vars == <<files, listdir, request, excel_files, next_file, results, returned, call_pc>>

history_vars == <<storage_attributes, bucket, faults, procs, upload>>

vars == <<parser_vars, dispatch_vars, history_vars>>

\* the sheets a report parser is given
Sheets ==
    [box_score |-> BoxGrids,
     work_order_report |-> GridsOf(WorkOrderPools),
     budget_comparison |-> GridsOf(BudgetPools),
     unit_availability |-> GridsOf(UnitPools),
     pending_make_ready |-> GridsOf(PendingPools),
     delinquency |-> GridsOf(DelinquencyPools),
     market_rent |-> GridsOf(MarketPools),
     residents_on_notice |-> GridsOf(NoticePools)]

NoOutcome == Outcome("", {}, "", "", <<>>, "")

NoSummary == [total_files_found |-> 0, files_successfully_parsed |-> 0, files_with_errors |-> 0,
              file_types_found |-> NoTables]

NoResults == [files_parsed |-> NoTables, errors |-> <<>>, summary |-> NoSummary]

NoRequest == [op |-> "", path |-> "", property_filter |-> ""]

\* no call of the dispatcher is under way
DispatcherIdle ==
    /\ files = NoTables /\ listdir = <<>> /\ request = NoRequest
    /\ excel_files = <<>> /\ next_file = 1 /\ results = NoResults
    /\ returned = NoOutcome /\ call_pc = "idle"

NoBucket == [history |-> NoObject, weeks |-> [w \in Weeks |-> NoTables], backups |-> {}]

IdleProcess ==
    [pc |-> "idle", op |-> "", date |-> 0, week_data |-> <<>>, records |-> <<>>,
     before |-> <<>>, after |-> <<>>, result |-> "", concurrent |-> FALSE, calls |-> 0]

NoUpload ==
    [date |-> 0, files |-> <<>>, next |-> 1, backup_existing |-> FALSE,
     success |-> <<>>, errors |-> <<>>, backups |-> <<>>, replaced |-> {}]

\* no call of the historical data service or of the upload handler is under way
HistoryIdle ==
    /\ storage_attributes = {} /\ bucket = NoBucket /\ faults = 0
    /\ procs = [p \in Processes |-> IdleProcess] /\ upload = NoUpload

Init ==
    /\ DispatcherIdle
    /\ HistoryIdle
    /\ report \in DOMAIN Sheets
    /\ df_raw \in Sheets[report]
    /\ pc = IF report = "box_score" THEN "metadata" ELSE "parse"
    /\ metadata = NoTables
    /\ section_locations = <<>>
    /\ next_section = 1
    /\ data_sections = NoTables
    /\ trace = NoTables
    /\ raised = ""

\* lines 28-46
BoxExtractMetadata ==
    /\ report = "box_score" /\ pc = "metadata"
    /\ metadata' = BoxMetadata(df_raw)
    /\ pc' = "locate"
    /\ UNCHANGED <<report, df_raw, section_locations, next_section, data_sections, trace, raised>>
    /\ UNCHANGED dispatch_vars
    /\ UNCHANGED history_vars

\* lines 58-71
BoxLocateSections ==
    /\ report = "box_score" /\ pc = "locate"
    /\ section_locations' = LocateSections(df_raw, 1, <<>>)
    /\ pc' = "extract"
    /\ UNCHANGED <<report, df_raw, next_section, data_sections, metadata, trace, raised>>
    /\ UNCHANGED dispatch_vars
    /\ UNCHANGED history_vars

\* one turn of the loop of lines 74-80
BoxExtractSection ==
    /\ report = "box_score" /\ pc = "extract"
    /\ next_section <= Len(section_locations)
    /\ LET section_name == section_locations[next_section].name
           section_data == ExtractSectionData(df_raw, section_locations[next_section].row, section_name)
       IN  /\ data_sections' = IF section_data.found
                               THEN Put(data_sections, section_name, section_data.table)
                               ELSE data_sections
           /\ trace' = IF section_data.found
                       THEN Put(trace, section_name,
                                [header_row |-> section_data.header_row, row_idx |-> section_data.row_idx])
                       ELSE trace
    /\ next_section' = next_section + 1
    /\ UNCHANGED <<report, df_raw, pc, section_locations, metadata, raised>>
    /\ UNCHANGED dispatch_vars
    /\ UNCHANGED history_vars

\* lines 82-87
BoxReturn ==
    /\ report = "box_score" /\ pc = "extract"
    /\ next_section > Len(section_locations)
    /\ pc' = "done"
    /\ UNCHANGED <<report, df_raw, section_locations, next_section, data_sections, metadata, trace, raised>>
    /\ UNCHANGED dispatch_vars
    /\ UNCHANGED history_vars

\* a report parser that runs as one call: its tables, or the exception that leaves it
Returns(name, result) ==
    /\ report = name /\ pc = "parse"
    /\ data_sections' = result.tables
    /\ trace' = result.trace
    /\ raised' = result.raised
    /\ pc' = IF result.raised = "" THEN "done" ELSE "raised"
    /\ UNCHANGED <<report, df_raw, section_locations, next_section, metadata>>
    /\ UNCHANGED dispatch_vars
    /\ UNCHANGED history_vars

\* parse_work_order_report: the metadata of lines 28-42 and the table of lines 44-84
ParseWorkOrderReport ==
    /\ report = "work_order_report" /\ pc = "parse"
    /\ LET result == WorkOrderResult(df_raw)
       IN  /\ data_sections' = result.tables
           /\ trace' = result.trace
           /\ raised' = result.raised
           /\ pc' = IF result.raised = "" THEN "done" ELSE "raised"
    /\ metadata' = WorkOrderMetadata(df_raw)
    /\ UNCHANGED <<report, df_raw, section_locations, next_section>>
    /\ UNCHANGED dispatch_vars
    /\ UNCHANGED history_vars

ParseBudgetComparison == Returns("budget_comparison", BudgetResult(df_raw))

ParseUnitAvailability == Returns("unit_availability", UnitResult(df_raw))

ParsePendingMakeReady == Returns("pending_make_ready", PendingResult(df_raw))

ParseDelinquency == Returns("delinquency", DelinquencyResult(df_raw))

ParseMarketRent == Returns("market_rent", MarketResult(df_raw))

ParseResidentsOnNotice == Returns("residents_on_notice", NoticeResult(df_raw))

Next ==
    \/ BoxExtractMetadata
    \/ BoxLocateSections
    \/ BoxExtractSection
    \/ BoxReturn
    \/ ParseWorkOrderReport
    \/ ParseBudgetComparison
    \/ ParseUnitAvailability
    \/ ParsePendingMakeReady
    \/ ParseDelinquency
    \/ ParseMarketRent
    \/ ParseResidentsOnNotice

Spec == Init /\ [][Next]_vars

(***************************************************************************)
(* Dispatcher calls: parse_file(file_path) and                             *)
(* parse_directory(directory_path, property_filter)                        *)
(***************************************************************************)
\* no report parser is run as a process of its own
ParserIdle ==
    /\ report = "" /\ df_raw = <<>> /\ pc = "idle"
    /\ metadata = NoTables /\ section_locations = <<>> /\ next_section = 1
    /\ data_sections = NoTables /\ trace = NoTables /\ raised = ""

DispatchInit ==
    /\ ParserIdle
    /\ HistoryIdle
    /\ \E listing \in Listings :
          /\ listdir = [i \in 1..Len(listing) |-> listing[i][1]]
          /\ \/ /\ files = FilesOf(listing)
                /\ request \in Requests(listing)
             \/ /\ Len(listing) = 1
                /\ files = Moved(FilesOf(listing), ReportsDirectory)
                /\ request \in {[op |-> "parse_file", path |-> p, property_filter |-> ""] :
                                    p \in DOMAIN files}
    /\ excel_files = <<>>
    /\ next_file = 1
    /\ results = NoResults
    /\ returned = NoOutcome
    /\ call_pc = "call"

\* the elements of q that satisfy keep, in order (a list comprehension with a condition)
RECURSIVE Selected(_, _)
Selected(q, keep) ==
    IF q = <<>> THEN <<>>
    ELSE (IF keep[1] THEN <<Head(q)>> ELSE <<>>)
         \o Selected(Tail(q), [i \in 1..(Len(keep) - 1) |-> keep[i + 1]])

\* lines 255-259
ExcelFiles(names, property_filter) ==
    LET xlsx == Selected(names, [i \in 1..Len(names) |-> EndsWith(names[i], ".xlsx")])
    IN  IF property_filter # ""
        THEN Selected(xlsx, [i \in 1..Len(xlsx) |-> Contains(xlsx[i], property_filter)])
        ELSE xlsx

RecordResult_ErrorAlsoParsed(res, filename, result) ==
    IF result.raised # ""
    THEN [res EXCEPT !.errors = Append(@, [filename |-> filename, error |-> result.raised])]
    ELSE IF "error" \in result.keys
    THEN [res EXCEPT !.errors = Append(@, [filename |-> filename, error |-> result.error]),
                     !.files_parsed = Put(@, filename, result)]
    ELSE [res EXCEPT !.files_parsed = Put(@, filename, result)]

\* lines 265-283: the result of parse_file goes to errors or to files_parsed
RecordResult(res, filename, result) ==
    IF result.raised # ""
    THEN [res EXCEPT !.errors = Append(@, [filename |-> filename, error |-> result.raised])]
    ELSE IF "error" \in result.keys
    THEN [res EXCEPT !.errors = Append(@, [filename |-> filename, error |-> result.error])]
    ELSE [res EXCEPT !.files_parsed = Put(@, filename, result)]

\* lines 286-298
Summary(names, res) ==
    LET found == {res.files_parsed[f].file_type : f \in DOMAIN res.files_parsed}
    IN  [total_files_found |-> Len(names),
         files_successfully_parsed |-> Cardinality(DOMAIN res.files_parsed),
         files_with_errors |-> Len(res.errors),
         file_types_found |->
            [p \in found |-> Cardinality({f \in DOMAIN res.files_parsed : res.files_parsed[f].file_type = p})]]

\* parse_file called by itself
CallParseFile ==
    /\ call_pc = "call" /\ request.op = "parse_file"
    /\ returned' = parse_file(request.path, files)
    /\ call_pc' = IF returned'.raised # "" THEN "raised" ELSE "done"
    /\ UNCHANGED <<files, listdir, request, excel_files, next_file, results>>
    /\ UNCHANGED parser_vars
    /\ UNCHANGED history_vars

\* lines 242-259
ParseDirectoryStart ==
    /\ call_pc = "call" /\ request.op = "parse_directory"
    /\ IF request.path # DirectoryPath
       THEN /\ returned' = Outcome("FileNotFoundError", {}, "", "", <<>>, "")
            /\ call_pc' = "raised"
            /\ UNCHANGED excel_files
       ELSE /\ excel_files' = ExcelFiles(listdir, request.property_filter)
            /\ call_pc' = "loop"
            /\ UNCHANGED returned
    /\ UNCHANGED <<files, listdir, request, next_file, results>>
    /\ UNCHANGED parser_vars
    /\ UNCHANGED history_vars

\* one turn of the loop of lines 262-283
ParseDirectoryFile ==
    /\ call_pc = "loop" /\ next_file <= Len(excel_files)
    /\ LET filename == excel_files[next_file]
           file_path == PathJoin(request.path, filename)
       IN  results' = RecordResult(results, filename, parse_file(file_path, files))
    /\ next_file' = next_file + 1
    /\ UNCHANGED <<files, listdir, request, excel_files, returned, call_pc>>
    /\ UNCHANGED parser_vars
    /\ UNCHANGED history_vars

\* lines 285-298
ParseDirectoryReturn ==
    /\ call_pc = "loop" /\ next_file > Len(excel_files)
    /\ results' = [results EXCEPT !.summary = Summary(excel_files, results)]
    /\ call_pc' = "done"
    /\ UNCHANGED <<files, listdir, request, excel_files, next_file, returned>>
    /\ UNCHANGED parser_vars
    /\ UNCHANGED history_vars

DispatchNext ==
    \/ CallParseFile
    \/ ParseDirectoryStart
    \/ ParseDirectoryFile
    \/ ParseDirectoryReturn

DispatchSpec == DispatchInit /\ [][DispatchNext]_vars

(***************************************************************************)
(* Historical data calls: process_upload (upload_handler.py), the scripts  *)
(* process_new_uploads.py and migrate_from_weekly_reports.py, and the      *)
(* update and migration of HistoricalDataService they end in.  A call of   *)
(* the service is two steps, the load of the document and its save, so     *)
(* that calls of two processes interleave.                                 *)
(***************************************************************************)
HistoryInit ==
    /\ ParserIdle
    /\ DispatcherIdle
    /\ storage_attributes \in {S3Attributes, S3Attributes \cup {"data_prefix"}}
    /\ bucket \in {[NoBucket EXCEPT !.weeks = folders] : folders \in InitialFolders}
    /\ faults = 0
    /\ procs = [p \in Processes |-> IdleProcess]
    /\ upload = NoUpload

\* a process that is in no call
Ready(p) == procs[p].pc \in {"idle", "returned"}

\* the S3 request `fault` may fail now
MayFail(fault) == fault # "" => faults < MaxFaults

\* the first half of update_with_new_week_data (lines 366-396) in process p: the key, the
\* load, the week's record and the list to save; an exception gives False (lines 408-410)
UpdateLoaded(p, parsed_data, report_date, fault) ==
    LET started == [procs[p] EXCEPT !.op = "update", !.date = report_date,
                                    !.before = bucket.history.weekly_occupancy_data,
                                    !.after = <<>>, !.calls = @ + 1,
                                    !.concurrent = procs[Other(p)].pc = "save"]
        historical_data == load_historical_data(bucket.history, fault)
        week_data == extract_week_data_from_reports(parsed_data, report_date)
    IN  IF get_historical_data_key_raises(storage_attributes)
        THEN [started EXCEPT !.pc = "returned", !.result = "False", !.week_data = <<>>, !.records = <<>>]
        ELSE [started EXCEPT !.pc = "save", !.result = "", !.week_data = <<week_data>>,
                             !.records = UpdatedRecords(historical_data.weekly_occupancy_data, week_data)]

\* the first half of migrate_from_comprehensive_report (lines 429-473)
MigrationLoaded(p, historical_records, fault) ==
    LET started == [procs[p] EXCEPT !.op = "migrate", !.date = 0,
                                    !.before = bucket.history.weekly_occupancy_data,
                                    !.after = <<>>, !.calls = @ + 1, !.week_data = <<>>,
                                    !.concurrent = procs[Other(p)].pc = "save"]
        existing_data == load_historical_data(bucket.history, fault)
    IN  IF get_historical_data_key_raises(storage_attributes)
        THEN [started EXCEPT !.pc = "returned", !.result = "False", !.records = <<>>]
        ELSE [started EXCEPT !.pc = "save", !.result = "",
                             !.records = MigratedRecords(existing_data.weekly_occupancy_data, historical_records)]

\* a call of process p has loaded: the call of the other process is concurrent with it
\* when that one is between its load and its save
Loaded(p, proc) ==
    [procs EXCEPT ![p] = proc,
                  ![Other(p)] = [@ EXCEPT !.concurrent = @ \/ procs[Other(p)].pc = "save"]]

LoadFaults == {"", "head_object", "get_object"}

\* process_upload, lines 120-130: the upload of the files chosen in the sidebar
ProcessUploadStart ==
    /\ Ready("dashboard") /\ procs["dashboard"].calls = 0 /\ upload = NoUpload
    /\ \E selected_date \in Weeks, uploaded_files \in UploadPool, backup_existing \in BOOLEAN :
          upload' = [NoUpload EXCEPT !.date = selected_date, !.files = uploaded_files,
                                     !.backup_existing = backup_existing]
    /\ procs' = [procs EXCEPT !["dashboard"].pc = "upload"]
    /\ UNCHANGED <<storage_attributes, bucket, faults>>
    /\ UNCHANGED <<parser_vars, dispatch_vars>>

\* one turn of the loop of lines 137-164: file_exists, backup_file, write_file
ProcessUploadFile ==
    /\ procs["dashboard"].pc = "upload" /\ upload.next <= Len(upload.files)
    /\ \E fault \in {"", "head_object", "copy_object", "put_object"} :
          LET uploaded_file == upload.files[upload.next]
              folder == bucket.weeks[upload.date]
              present == uploaded_file.name \in DOMAIN folder
              exists == upload.backup_existing /\ file_exists(present, fault)
              backup_success == exists /\ fault # "copy_object"
              success == fault # "put_object"
              copy == [week |-> upload.date, name |-> uploaded_file.name,
                       content |-> IF present THEN folder[uploaded_file.name] ELSE uploaded_file.content]
          IN  /\ MayFail(fault)
              /\ fault = "head_object" => upload.backup_existing /\ present
              /\ fault = "copy_object" => exists
              /\ faults' = faults + (IF fault = "" THEN 0 ELSE 1)
              /\ bucket' = [bucket EXCEPT
                               !.backups = IF backup_success THEN @ \cup {copy} ELSE @,
                               !.weeks[upload.date] =
                                   IF success THEN Put(@, uploaded_file.name, uploaded_file.content) ELSE @]
              /\ upload' = [upload EXCEPT
                               !.next = @ + 1,
                               !.backups = IF backup_success THEN Append(@, uploaded_file.name) ELSE @,
                               !.success = IF success THEN Append(@, uploaded_file.name) ELSE @,
                               !.errors = IF success THEN @ ELSE Append(@, uploaded_file.name),
                               !.replaced = IF success /\ present THEN @ \cup {copy} ELSE @]
    /\ UNCHANGED <<storage_attributes, procs>>
    /\ UNCHANGED <<parser_vars, dispatch_vars>>

\* lines 172-185 and _update_historical_data (lines 206-237): after an upload without
\* errors the week's folder is loaded and the history update starts
ProcessUploadUpdate ==
    /\ procs["dashboard"].pc = "upload" /\ upload.next > Len(upload.files)
    /\ IF upload.success # <<>> /\ upload.errors = <<>>
       THEN \E fault \in LoadFaults :
               /\ MayFail(fault)
               /\ get_historical_data_key_raises(storage_attributes) => fault = ""
               /\ faults' = faults + (IF fault = "" THEN 0 ELSE 1)
               /\ procs' = Loaded("dashboard",
                                  UpdateLoaded("dashboard", load_property_data(bucket.weeks[upload.date]),
                                               upload.date, fault))
       ELSE /\ procs' = [procs EXCEPT !["dashboard"].pc = "returned", !["dashboard"].op = "",
                                      !["dashboard"].calls = @ + 1]
            /\ UNCHANGED faults
    /\ UNCHANGED <<storage_attributes, bucket, upload>>
    /\ UNCHANGED <<parser_vars, dispatch_vars>>

\* process_week_property of process_new_uploads.py (lines 32-63)
ProcessWeekProperty ==
    /\ Ready("script") /\ procs["script"].calls < MaxCalls
    /\ \E week \in Weeks, fault \in LoadFaults :
          /\ MayFail(fault)
          /\ get_historical_data_key_raises(storage_attributes) => fault = ""
          /\ faults' = faults + (IF fault = "" THEN 0 ELSE 1)
          /\ procs' = Loaded("script",
                             UpdateLoaded("script", load_property_data(bucket.weeks[week]), week, fault))
    /\ UNCHANGED <<storage_attributes, bucket, upload>>
    /\ UNCHANGED <<parser_vars, dispatch_vars>>

\* migrate_from_comprehensive_report, called by migrate_from_weekly_reports.py (line 241)
\* with the parsed comprehensive report
MigrateFromComprehensiveReport ==
    /\ Ready("script") /\ procs["script"].calls < MaxCalls
    /\ \E historical_records \in MigrationPool, fault \in LoadFaults :
          /\ MayFail(fault)
          /\ get_historical_data_key_raises(storage_attributes) => fault = ""
          /\ faults' = faults + (IF fault = "" THEN 0 ELSE 1)
          /\ procs' = Loaded("script", MigrationLoaded("script", historical_records, fault))
    /\ UNCHANGED <<storage_attributes, bucket, upload>>
    /\ UNCHANGED <<parser_vars, dispatch_vars>>

\* the second half of both calls: sort done, save_historical_data and the return
SaveHistoricalData(p) ==
    /\ procs[p].pc = "save"
    /\ \E fault \in {"", "put_object"} :
          LET saved == save_historical_data(bucket.history, procs[p].records, fault)
          IN  /\ MayFail(fault)
              /\ faults' = faults + (IF fault = "" THEN 0 ELSE 1)
              /\ bucket' = [bucket EXCEPT !.history = saved.object]
              /\ procs' = [procs EXCEPT ![p].pc = "returned",
                                        ![p].result = IF saved.success THEN "True" ELSE "False",
                                        ![p].after = saved.object.weekly_occupancy_data]
    /\ UNCHANGED <<storage_attributes, upload>>
    /\ UNCHANGED <<parser_vars, dispatch_vars>>

HistoryNext ==
    \/ ProcessUploadStart
    \/ ProcessUploadFile
    \/ ProcessUploadUpdate
    \/ ProcessWeekProperty
    \/ MigrateFromComprehensiveReport
    \/ \E p \in Processes : SaveHistoricalData(p)

HistorySpec == HistoryInit /\ [][HistoryNext]_vars

(***************************************************************************)
(* Properties                                                              *)
(***************************************************************************)
BoxDone == report = "box_score" /\ pc = "done"

\* the lowered, stripped first cell of grid row i
FirstCellLower(i) == Strip(Lower(df_raw[i][1]))

IsTotalRow(i) == Contains(FirstCellLower(i), "total")

TableTexts(t, k) == [r \in 1..Len(t.rows) |-> t.rows[r][k].text]

ReadUpTo(t, ncols, i) ==
    \A j \in (t.header_row + 1)..(i - 1) :
        \/ ~AnyNonBlank(FirstCells(df_raw[j], ncols))
        \/ \E k \in 1..Len(t.row_idx) : t.row_idx[k] = j

RecordsBefore(t, i) == Cardinality({k \in 1..Len(t.row_idx) : t.row_idx[k] < i})

IsBlankWithin(i, ncols) == ~AnyNonBlank(FirstCells(df_raw[i], ncols))

NonBlankCells(row) == {k \in 1..Len(row) : Strip(row[k]) # ""}

\* a clean header row: its named cells are its leading cells
IsCleanHeader(row) ==
    /\ NonBlankCells(row) # {}
    /\ \A k \in NonBlankCells(row) : \A j \in 1..k : j \in NonBlankCells(row)
    /\ \A k \in NonBlankCells(row) : ~StartsWith(Strip(row[k]), "Unnamed")

\* the header of table t is clean and is immediately followed by exactly n non-empty data
\* rows (no section keyword row, no "total" row among them in a Box Score) and then a blank row
IsWellFormedBlock(t, ncols, n) ==
    /\ IsCleanHeader(df_raw[t.header_row])
    /\ n >= 1 /\ t.header_row + n + 1 <= Len(df_raw)
    /\ \A j \in (t.header_row + 1)..(t.header_row + n) :
          /\ ~IsBlankWithin(j, ncols)
          /\ report = "box_score" => (~IsSectionKeywordRow(FirstCellLower(j)) /\ ~IsTotalRow(j))
    /\ ~AnyNonBlank(df_raw[t.header_row + n + 1])

\* nothing is read after row i: all later rows are blank, or (Box Score) the next non-blank
\* row names a section
NothingReadAfter(i, ncols) ==
    \/ \A j \in (i + 1)..Len(df_raw) : IsBlankWithin(j, ncols)
    \/ /\ report = "box_score"
       /\ \E j \in (i + 1)..Len(df_raw) :
             /\ ~IsBlankWithin(j, ncols) /\ IsSectionKeywordRow(FirstCellLower(j))
             /\ \A m \in (i + 1)..(j - 1) : IsBlankWithin(m, ncols)

SingleHeaderReports == {"box_score", "work_order_report"}

NamesOtherSection(i, s) ==
    \E k \in 1..Len(SectionNames) :
        SectionNames[k] # s /\ SectionMatches(SectionNames[k], Strip(Lower(StrCell(df_raw[i][1]))))

\* C4: row extraction for a Box Score section stops at the row before any row whose first
\* cell matches another section's keyword group of the section locator: no such row and no
\* later row is a record of the section.
C4_StopsAtLocatorKeyword ==
    report = "box_score" =>
        \A s \in DOMAIN trace : \A k \in 1..Len(trace[s].row_idx) :
            \A i \in (trace[s].header_row + 1)..trace[s].row_idx[k] : ~NamesOtherSection(i, s)

\* the rows a table was built from: its header row and its records
RowsUsed(t) == {t.header_row} \cup {t.row_idx[k] : k \in 1..Len(t.row_idx)}

\* section s1 is handled before section s2 by the extraction loop
HandledBefore(s1, s2) ==
    \E j \in 1..Len(section_locations) : \E k \in 1..Len(section_locations) :
        j < k /\ section_locations[j].name = s1 /\ section_locations[k].name = s2

\* C5: the scan never backtracks: once a section's extraction has ended, the work for a
\* later section uses only rows after the last row the earlier section consumed, so no grid
\* row is the header or a record of more than one section.
C5_NoRowInTwoSections ==
    report = "box_score" =>
        \A s1 \in DOMAIN trace : \A s2 \in DOMAIN trace :
            HandledBefore(s1, s2) =>
                \A i \in RowsUsed(trace[s1]) : \A j \in RowsUsed(trace[s2]) : i < j

\* the score of a candidate header row, written out from lines 114-119
C6_Score(row) ==
    LET joined_row == Lower(JoinSpace(row))
    IN  Cardinality({w \in {"code", "name", "units", "calls", "move", "rent", "contact", "walk", "email", "web", "sms"} :
                        Contains(joined_row, w)})
        + (IF Strip(Lower(row[1])) = "code" THEN 5 ELSE 0)

StartRow(s) == section_locations[CHOOSE k \in 1..Len(section_locations) : section_locations[k].name = s].row

\* the rows the header resolver looks at for a section that starts at row start
Window(start) == {i \in 1..Len(df_raw) : start < i /\ i <= start + 4}

C6_WitnessCodeBonus ==
    /\ BoxDone
    /\ \E s \in DOMAIN trace :
          \E i \in Window(StartRow(s)) :
              /\ i < trace[s].header_row
              /\ C6_Score(df_raw[i]) > 0
              /\ Strip(Lower(df_raw[trace[s].header_row][1])) = "code"

NoCandidate(start) == \A i \in Window(start) : C6_Score(df_raw[i]) = 0

LocatedSections == {section_locations[k].name : k \in 1..Len(section_locations)}

\* a section whose best header candidate has a named first cell and a data row right after it
PlainlyExtractable(s) ==
    \E h \in Window(StartRow(s)) :
        /\ C6_Score(df_raw[h]) > 0
        /\ \A i \in Window(StartRow(s)) : i # h => C6_Score(df_raw[i]) < C6_Score(df_raw[h])
        /\ Strip(df_raw[h][1]) # "" /\ ~StartsWith(Strip(df_raw[h][1]), "Unnamed")
        /\ h < Len(df_raw)
        /\ Strip(df_raw[h + 1][1]) # "" /\ ~IsSectionKeywordRow(FirstCellLower(h + 1))

\* C7: a section none of whose candidate rows scores above zero contributes no table, no
\* exception leaves the parser, and the other sections of the sheet are still extracted.
C7_NoHeaderNoTable ==
    BoxDone =>
        /\ raised = ""
        /\ \A s \in LocatedSections : NoCandidate(StartRow(s)) => s \notin DOMAIN data_sections
        /\ \A s \in LocatedSections : PlainlyExtractable(s) => s \in DOMAIN data_sections

\* the first section handled has no header candidate, a section handled after it has a table
C7_Witness ==
    /\ BoxDone
    /\ Len(section_locations) >= 2
    /\ NoCandidate(section_locations[1].row)
    /\ section_locations[1].name \notin DOMAIN data_sections
    /\ \E k \in 2..Len(section_locations) : section_locations[k].name \in DOMAIN data_sections

PairHeaderReports == {"unit_availability", "pending_make_ready", "delinquency"}

\* the two header cells of grid column k of the table t, stripped
Upper(t, k) == Strip(df_raw[t.header_row][k])

Lower2(t, k) == Strip(df_raw[t.header_row + 1][k])

BothEmpty(t, k) == Upper(t, k) = "" /\ Lower2(t, k) = ""

\* C8: in a table with a two-row header the name of a column is: the two texts joined by one
\* space when both are non-empty and differ, the text once when they are identical, the
\* non-empty one when exactly one is non-empty; so "Code" over "" is "Code" and "Move" over
\* "In" is "Move In".
C8_MergedNames ==
    report \in PairHeaderReports =>
        \A s \in DOMAIN trace : \A k \in 1..Len(data_sections[s].columns) :
            LET t == trace[s]
                name == data_sections[s].columns[k]
            IN  /\ (Upper(t, k) # "" /\ Lower2(t, k) # "" /\ Upper(t, k) # Lower2(t, k))
                      => name = Upper(t, k) \o " " \o Lower2(t, k)
                /\ (Upper(t, k) # "" /\ Upper(t, k) = Lower2(t, k)) => name = Upper(t, k)
                /\ (Upper(t, k) # "" /\ Lower2(t, k) = "") => name = Upper(t, k)
                /\ (Upper(t, k) = "" /\ Lower2(t, k) # "") => name = Lower2(t, k)
                /\ (Upper(t, k) = "Code" /\ Lower2(t, k) = "") => name = "Code"
                /\ (Upper(t, k) = "Move" /\ Lower2(t, k) = "In") => name = "Move In"

\* the header pair ... "Code", "Move" / ... "", "In" has been merged
C8_Witness ==
    /\ report \in PairHeaderReports /\ pc = "done"
    /\ \E s \in DOMAIN trace : \E k \in 1..(Len(data_sections[s].columns) - 1) :
          /\ Upper(trace[s], k) = "Code" /\ Lower2(trace[s], k) = ""
          /\ Upper(trace[s], k + 1) = "Move" /\ Lower2(trace[s], k + 1) = "In"
          /\ data_sections[s].columns[k] = "Code"
          /\ data_sections[s].columns[k + 1] = "Move In"

\* identical texts in both header rows have been merged
C8_WitnessIdentical ==
    /\ report \in PairHeaderReports /\ pc = "done"
    /\ \E s \in DOMAIN trace : \E k \in 1..Len(data_sections[s].columns) :
          Upper(trace[s], k) # "" /\ Upper(trace[s], k) = Lower2(trace[s], k)

\* C9 (as claimed): in unit availability, pending make ready and delinquency the header list
\* holds no column at or to the right of the first column in which both header rows are empty.
C9_StopsAtFirstGap ==
    report \in PairHeaderReports =>
        \A s \in DOMAIN trace : \A k \in 1..Len(data_sections[s].columns) :
            \A j \in 1..k : ~BothEmpty(trace[s], j)

IsPlaceholder(name) == StartsWith(name, "Column_")

\* C9 (amended): pending make ready and delinquency stop header reading at the first column
\* in which both header rows are empty; unit availability names such a column Column_<index>
\* and reads on: it keeps every column up to the last one whose merged name does not start
\* with "Column_", and removes only the trailing placeholder columns.
C9_GapStopsOrIsNamed ==
    report \in PairHeaderReports =>
        \A s \in DOMAIN trace :
            LET t == trace[s]
                cols == data_sections[s].columns
                width == Len(df_raw[t.header_row])
            IN  IF report = "unit_availability"
                THEN /\ \A k \in 1..Len(cols) :
                           BothEmpty(t, k) <=> (cols[k] = "Column_" \o IntToStr(k - 1))
                     /\ Len(cols) > 0 => ~IsPlaceholder(cols[Len(cols)])
                     /\ \A k \in (Len(cols) + 1)..width :
                           BothEmpty(t, k) \/ IsPlaceholder(MergePair(df_raw[t.header_row][k], df_raw[t.header_row + 1][k]))
                ELSE /\ \A k \in 1..Len(cols) : ~BothEmpty(t, k)
                     /\ Len(cols) < width => BothEmpty(t, Len(cols) + 1)

\* unit availability: a placeholder column followed by a named column
C9_Witness ==
    /\ report = "unit_availability" /\ pc = "done"
    /\ \E s \in DOMAIN trace : \E k \in 1..(Len(data_sections[s].columns) - 1) :
          /\ BothEmpty(trace[s], k)
          /\ IsPlaceholder(data_sections[s].columns[k])
          /\ ~IsPlaceholder(data_sections[s].columns[k + 1])

\* pending make ready or delinquency: the header stops at a gap with a named column behind it
C9_WitnessStop ==
    /\ report \in {"pending_make_ready", "delinquency"} /\ pc = "done"
    /\ \E s \in DOMAIN trace :
          LET n == Len(data_sections[s].columns)
          IN  /\ n + 2 <= Len(df_raw[trace[s].header_row])
              /\ BothEmpty(trace[s], n + 1) /\ ~BothEmpty(trace[s], n + 2)

\* the header cells a table's columns come from: the header row, or the header rows of a
\* multi-row header
HeaderExtent(t) ==
    IF report \in PairHeaderReports THEN {t.header_row, t.header_row + 1}
    ELSE IF report = "market_rent"
         THEN {i \in 1..Len(df_raw) : t.header_row <= i /\ i < t.header_row + MarketHeaderRows}
    ELSE {t.header_row}

NamedColumns(t) == {k \in 1..Len(df_raw[t.header_row]) : \E i \in HeaderExtent(t) : Strip(df_raw[i][k]) # ""}

\* C10: in every table of every report parser the column names are pairwise distinct, and a
\* blank header cell before the last named header cell has a column of its own (a synthetic
\* placeholder name) instead of being dropped.
C10_UniqueNamesBlankKept ==
    \A s \in DOMAIN data_sections :
        LET cols == data_sections[s].columns
        IN  /\ \A j \in 1..Len(cols) : \A k \in 1..Len(cols) : j # k => cols[j] # cols[k]
            /\ s \in DOMAIN trace =>
                  \A k \in NamedColumns(trace[s]) : k <= Len(cols)

\* the exception that left the parser came from the numeric clean-up of a column: in unit
\* availability, delinquency and market rent only the .str clean-up of a column raises
\* AttributeError, in work order and pending make ready only to_numeric raises TypeError
NumericCoercionRaised ==
    \/ report \in {"unit_availability", "delinquency", "market_rent"} /\ raised = "AttributeError"
    \/ report \in {"work_order_report", "pending_make_ready"} /\ raised = "TypeError"

\* the cells of the numeric columns of a table
NumericCells(t) == {t.rows[r][k] : r \in 1..Len(t.rows), k \in {j \in 1..Len(t.columns) : t.dtypes[j] \in {"int64", "float64"}}}

\* C11: numeric coercion of a table column never raises to the caller of a report parser,
\* whatever the cells hold and also when column names are repeated: every cell of a numeric
\* column is a number or the null sentinel, and the parser returns its table.
C11_CoercionNeverRaises ==
    /\ ~NumericCoercionRaised
    /\ \A s \in DOMAIN data_sections : \A c \in NumericCells(data_sections[s]) : c.kind \in {"num", "nan"}

\* the sheet text a cell of a single-table report was read from
SourceText(s, r, k) == df_raw[trace[s].row_idx[r]][k]

IsNumericColumnOf(t, k) == t.dtypes[k] \in {"int64", "float64"}

\* C12: in a numeric column "$1,234.00" coerces to 1234.0 and the parenthesis-as-negative
\* value "(500)" coerces to the negative number -500.0.
C12_CurrencyAndParentheses ==
    report = "budget_comparison" =>
        \A s \in DOMAIN trace : \A r \in 1..Len(data_sections[s].rows) : \A k \in 1..Len(data_sections[s].columns) :
            IsNumericColumnOf(data_sections[s], k) =>
                /\ SourceText(s, r, k) = "$1,234.00" => data_sections[s].rows[r][k] = NumVal(FALSE, 1234, "")
                /\ SourceText(s, r, k) = "(500)" => data_sections[s].rows[r][k] = NumVal(TRUE, 500, "")

\* C13: in a numeric column a cell that is blank or a lone "-" coerces to 0, and only a lone
\* "-" is replaced: the "-" of "-500" stays, so the value is -500.
C13_LoneDashOnly ==
    report \in {"budget_comparison", "market_rent", "delinquency"} =>
        \A s \in DOMAIN trace : \A r \in 1..Len(data_sections[s].rows) : \A k \in 1..Len(data_sections[s].columns) :
            IsNumericColumnOf(data_sections[s], k) =>
                /\ Strip(SourceText(s, r, k)) \in {"", "-"} => data_sections[s].rows[r][k] = Zero
                /\ SourceText(s, r, k) = "-500" => data_sections[s].rows[r][k] = NumVal(TRUE, 500, "")

\* column k of a table is a date column of its parser
IsDateColumnOf(s, k) ==
    \/ report = "pending_make_ready" /\ IsDateColumn(data_sections[s].columns[k])
    \/ report = "residents_on_notice" /\ data_sections[s].columns[k] \in date_columns

\* C14: in a date column a cell that cannot be parsed as a date keeps its original string in
\* the table (it is not replaced by a null value), and no error is raised.
C14_UnparsableDateKeepsText ==
    report \in {"pending_make_ready", "residents_on_notice"} =>
        /\ raised # "ValueError"
        /\ \A s \in DOMAIN trace : \A r \in 1..Len(data_sections[s].rows) : \A k \in 1..Len(data_sections[s].columns) :
              (IsDateColumnOf(s, k) /\ ~IsDateText(Strip(SourceText(s, r, k))))
                  => data_sections[s].rows[r][k] = StrVal(SourceText(s, r, k))

ParseFileDone == request.op = "parse_file" /\ call_pc = "done"

\* the parser_type each entry's parser writes into its result
parser_types ==
    << "resanalytics_box_score", "work_order_report", "resanalytics_unit_availability",
       "resanalytics_market_rent", "resanalytic_lease_expiration", "budget_comparison",
       "pending_make_ready", "resaranalytics_delinquency", "residents_on_notice",
       "comprehensive_6sheet", "comprehensive_internal", "comprehensive_internal" >>

\* the entries of FILE_PATTERNS whose predicate is true of the requested file
TrueEntries == {k \in 1..Len(FILE_PATTERNS) : Matches(k, request.path, files)}

\* C15: parse_file uses the first entry of the ordered pattern list whose predicate is
\* true (its pattern is reported, and a result that was parsed is that entry's parser's);
\* for the file name Budget_Comparison_marbla.xlsx that entry is budget_comparison, no
\* earlier entry matching.
C15_FirstMatchWins ==
    ParseFileDone =>
        LET hits == TrueEntries
        IN  /\ \A k \in hits :
                  (\A j \in hits : k <= j) =>
                     /\ returned.file_type = FILE_PATTERNS[k]
                     /\ returned.parser_type \in {"", parser_types[k]}
            /\ Basename(request.path) = "Budget_Comparison_marbla.xlsx" =>
                  /\ 6 \in hits /\ \A j \in hits : j >= 6
                  /\ returned.file_type = "budget_comparison"
                  /\ returned.parser_type = "budget_comparison"
                  /\ "budget_data" \in returned.keys

\* the budget file was dispatched: entry 6 is the only entry that matches it
C15_Witness ==
    /\ ParseFileDone
    /\ request.path = PathJoin(DirectoryPath, "Budget_Comparison_marbla.xlsx")
    /\ TrueEntries = {6}
    /\ returned.parser_type = "budget_comparison"

ParseFileEnded == request.op = "parse_file" /\ call_pc \in {"done", "raised"}

NoEntryMatches == \A k \in 1..Len(FILE_PATTERNS) : ~Matches(k, request.path, files)

\* C16 (as claimed): when no predicate of the pattern list matches a file name,
\* parse_file raises nothing and returns a dictionary whose error names the file name and
\* whose supported_patterns is the list of the patterns.
C16_UnknownNeverRaises ==
    (ParseFileEnded /\ NoEntryMatches) =>
        /\ returned.raised = ""
        /\ {"error", "supported_patterns"} \subseteq returned.keys
        /\ Contains(returned.error, Basename(request.path))
        /\ returned.supported_patterns = FILE_PATTERNS

\* C16 (amended): when no predicate of the pattern list matches the name of a file that
\* exists, parse_file raises nothing and returns a dictionary whose error names the file
\* name and whose supported_patterns is the list of the patterns.
C16_UnknownFileType ==
    (ParseFileEnded /\ request.path \in DOMAIN files /\ NoEntryMatches) =>
        /\ returned.raised = ""
        /\ {"error", "supported_patterns"} \subseteq returned.keys
        /\ Contains(returned.error, Basename(request.path))
        /\ returned.supported_patterns = FILE_PATTERNS

C16_Witness ==
    /\ ParseFileEnded
    /\ request.path = PathJoin(DirectoryPath, "randomfile.xlsx")
    /\ NoEntryMatches
    /\ returned.error = "Unknown file type for: randomfile.xlsx"
    /\ Len(returned.supported_patterns) = 12

\* the entry selected for the file requested, 0 when the file does not exist or no entry
\* matches it
SelectedEntry ==
    IF request.path \in DOMAIN files THEN identify_file_type(request.path, files) ELSE 0

\* the file requested exists, an entry matches it and that entry's parser raises
SelectedParserRaises ==
    LET k == SelectedEntry
    IN  k # 0 /\ Parser(k, files[request.path]).raised # ""

UnknownShape == {"error", "file_path", "supported_patterns"}

\* C17 (as claimed): when the parser selected for an existing file fails, parse_file
\* raises nothing and returns a dictionary of the shape of the unknown-file-type result
\* (the keys error, file_path, supported_patterns).
C17_SameShapeAsUnknown ==
    (ParseFileEnded /\ SelectedParserRaises) =>
        /\ returned.raised = ""
        /\ returned.keys = UnknownShape

\* the file requested exists and the parser selected returns a dictionary with an error
\* of its own (a comprehensive weekly parser that caught its failure)
SelectedParserReportsError ==
    LET k == SelectedEntry
    IN  /\ k # 0
        /\ Parser(k, files[request.path]).raised = ""
        /\ "error" \in Parser(k, files[request.path]).keys

\* C17 (amended): when the parser selected for an existing file raises, parse_file raises
\* nothing and returns a dictionary with exactly the keys error, file_path and file_type:
\* error names the file, file_type is the pattern of the entry selected, and there is no
\* supported_patterns.  When the parser caught its failure itself, parse_file returns the
\* parser's dictionary, with its error and with file_type_info.
C17_ParserErrorCaught ==
    /\ (ParseFileEnded /\ SelectedParserRaises) =>
          /\ returned.raised = ""
          /\ returned.keys = {"error", "file_path", "file_type"}
          /\ Contains(returned.error, Basename(request.path))
          /\ returned.file_type = FILE_PATTERNS[SelectedEntry]
          /\ returned.supported_patterns = <<>>
    /\ (ParseFileEnded /\ SelectedParserReportsError) =>
          /\ returned.raised = ""
          /\ {"error", "file_path", "parser_type", "file_type_info"} \subseteq returned.keys
          /\ "supported_patterns" \notin returned.keys

C17_Witness ==
    /\ ParseFileEnded /\ SelectedParserRaises
    /\ returned.error = "Error parsing ResAnalytic_Lease_Expiration_marbla.xlsx: IndexError"
    /\ returned.file_type = "resanalytic_lease"

ParseDirectoryDone == request.op = "parse_directory" /\ call_pc = "done"

\* the entries of errors for a file name
ErrorsFor(filename) == {i \in 1..Len(results.errors) : results.errors[i].filename = filename}

\* what parse_file gives for a file of the directory, called on it alone
Alone(filename) == parse_file(PathJoin(request.path, filename), files)

\* C18: parse_directory handles every selected .xlsx file on its own: when it returns,
\* each selected file is either a key of files_parsed or has one entry in errors, never
\* both; what is recorded for a file is what parse_file gives for that file alone, whatever
\* the other files and their order; and total_files_found = files_successfully_parsed +
\* files_with_errors.
C18_PerFileIsolation ==
    ParseDirectoryDone =>
        /\ excel_files = ExcelFiles(listdir, request.property_filter)
        /\ \A i \in 1..Len(excel_files) :
              LET filename == excel_files[i]
                  parsed == filename \in DOMAIN results.files_parsed
                  alone == Alone(filename)
              IN  /\ parsed <=> ErrorsFor(filename) = {}
                  /\ Cardinality(ErrorsFor(filename)) <= 1
                  /\ parsed => /\ results.files_parsed[filename] = alone
                               /\ "error" \notin alone.keys
                  /\ \A e \in ErrorsFor(filename) :
                        /\ "error" \in alone.keys
                        /\ results.errors[e].error = alone.error
        /\ DOMAIN results.files_parsed \subseteq {excel_files[i] : i \in 1..Len(excel_files)}
        /\ results.summary.total_files_found = Len(excel_files)
        /\ results.summary.files_successfully_parsed = Cardinality(DOMAIN results.files_parsed)
        /\ results.summary.files_with_errors = Len(results.errors)
        /\ results.summary.total_files_found
             = results.summary.files_successfully_parsed + results.summary.files_with_errors

\* a file that ended in errors was handled before a file that was parsed
C18_Witness ==
    /\ ParseDirectoryDone
    /\ Len(excel_files) = 2
    /\ ErrorsFor(excel_files[1]) # {}
    /\ excel_files[2] \in DOMAIN results.files_parsed
    /\ results.summary.files_with_errors = 1
    /\ results.summary.files_successfully_parsed = 1

\* the file requested exists, is a workbook, goes to the comprehensive internal parser
\* and has none of the sheets parse_occupancy_sheet reads by name
OccupancySheetAbsent ==
    /\ request.path \in DOMAIN files
    /\ identify_file_type(request.path, files) \in {11, 12}
    /\ files[request.path].readable
    /\ files[request.path].sheet_names \cap possible_occupancy_names = {}

\* C19: parse_file ends with an error the caller sees (an exception, or the key error in
\* the result) whenever the path does not exist or the workbook lacks the sheet its
\* parser reads by name; a missing named sheet never gives an error-free result.
C19_MissingSheetSurfaces ==
    ParseFileEnded =>
        /\ request.path \notin DOMAIN files => returned.raised = "FileNotFoundError"
        /\ OccupancySheetAbsent => (returned.raised # "" \/ "error" \in returned.keys)

\* the parser of the report has ended, by a return or by an exception
ParserEnded == pc \in {"done", "raised"}

\* C20: metadata extraction never produces an error: on a sheet with fewer rows than the
\* rows the metadata is read from (3 for unit availability, 4 for budget comparison, 1 for
\* delinquency) the keys are left absent and no exception leaves the parser.
C20_MetadataNeverRaises ==
    ParserEnded =>
        /\ (report = "unit_availability" /\ Len(df_raw) < UnitMetadataRows) => raised = ""
        /\ (report = "budget_comparison" /\ Len(df_raw) < BudgetMetadataRows) => raised = ""
        /\ (report = "delinquency" /\ Len(df_raw) = 0) => raised = ""

\* the first cell of row i of the sheet, as the metadata loops read it
MetadataCell(i) == StrCell(df_raw[i][1])

\* row i is the first row of the leading window of n rows whose first cell satisfies hits
IsFirstMatch(hits, n, i) ==
    /\ i \in 1..Min(n, Len(df_raw)) /\ hits[i]
    /\ \A j \in 1..(i - 1) : ~hits[j]

HasKey(key, value) == key \in DOMAIN metadata /\ metadata[key] = value

PropertyHits == [i \in 1..Len(df_raw) |-> PropertyMatch(MetadataCell(i)).found]

DateHits == [i \in 1..Len(df_raw) |-> DateRangeMatch(MetadataCell(i)).found]

PropertyCodeHits ==
    [i \in 1..Len(df_raw) |->
        Contains(MetadataCell(i), "Property=") /\ PropertyCodeMatch(MetadataCell(i)).found]

StatusHits ==
    [i \in 1..Len(df_raw) |->
        Contains(MetadataCell(i), "Property=") /\ StatusMatch(MetadataCell(i)).found]

\* C21: each metadata key has the value of the first row of the leading window that
\* matches the key's pattern (Box Score: property_name, property_code, date_range; work
\* order: property_code, status_filters); a later matching row does not overwrite it.
C21_FirstMatchingRowWins ==
    /\ (report = "box_score" /\ pc \in {"locate", "extract", "done"}) =>
          \A i \in 1..Len(df_raw) :
             /\ IsFirstMatch(PropertyHits, PropertyWindow, i) =>
                   /\ HasKey("property_name", PropertyMatch(MetadataCell(i)).name)
                   /\ HasKey("property_code", PropertyMatch(MetadataCell(i)).code)
             /\ IsFirstMatch(DateHits, DateWindow, i) =>
                   HasKey("date_range", DateRangeMatch(MetadataCell(i)).range)
    /\ (report = "work_order_report" /\ pc = "done") =>
          \A i \in 1..Len(df_raw) :
             /\ IsFirstMatch(PropertyCodeHits, WorkOrderWindow, i) =>
                   HasKey("property_code", PropertyCodeMatch(MetadataCell(i)).code)
             /\ IsFirstMatch(StatusHits, WorkOrderWindow, i) =>
                   HasKey("status_filters", StatusMatch(MetadataCell(i)).filters)

\* the rows whose first cell (lowered, stripped) holds the keywords of section s: any of
\* them for availability and resident_activity, both of them for conversion_ratios
KeywordRows(s) ==
    {i \in 1..Len(df_raw) :
        LET first_cell == Strip(Lower(StrCell(df_raw[i][1])))
        IN  \/ s = "availability"
               /\ (Contains(first_cell, "availability") \/ Contains(first_cell, "avail"))
            \/ s = "resident_activity"
               /\ (Contains(first_cell, "resident") \/ Contains(first_cell, "activity"))
            \/ s = "conversion_ratios"
               /\ Contains(first_cell, "conversion") /\ Contains(first_cell, "ratios")}

LastOf(rows) == CHOOSE i \in rows : \A j \in rows : j <= i

LocationsOf(s) == {k \in 1..Len(section_locations) : section_locations[k].name = s}

\* C22: a section whose keyword is in the first cell of one or more rows has exactly one
\* start row, the index of the last such row; the extraction loop handles it once, and a
\* table extracted for it has its header in the rows that follow that last row.
C22_LastMatchWins ==
    (report = "box_score" /\ pc \in {"extract", "done"}) =>
        /\ \A s \in {"availability", "resident_activity", "conversion_ratios"} :
              LET rows == KeywordRows(s)
              IN  IF rows = {} THEN LocationsOf(s) = {}
                  ELSE /\ Cardinality(LocationsOf(s)) = 1
                       /\ StartRow(s) = LastOf(rows)
        /\ next_section <= Len(section_locations) + 1
        /\ pc = "done" => next_section = Len(section_locations) + 1
        /\ \A s \in DOMAIN trace :
              LET last == LastOf(KeywordRows(s))
              IN  /\ trace[s].header_row \in Window(last)
                  /\ \A r \in 1..Len(trace[s].row_idx) : trace[s].row_idx[r] > last

\* the keyword of a section is in two rows, each followed by a header row, and the table
\* is extracted from the second
C22_Witness ==
    /\ report = "box_score" /\ pc = "done"
    /\ \E s \in DOMAIN trace :
          /\ Cardinality(KeywordRows(s)) >= 2
          /\ \E i \in KeywordRows(s) :
                /\ i < LastOf(KeywordRows(s))
                /\ FindHeaderRow(df_raw, i) \notin {0, trace[s].header_row}
          /\ Len(trace[s].row_idx) >= 1

\* the grid columns of the header row of table s whose stripped text is the column name H
HeaderColumnsOf(s, H) ==
    {g \in 1..Len(df_raw[trace[s].header_row]) : Strip(df_raw[trace[s].header_row][g]) = H}

\* column k of table s is kept as text, untouched by a clean-up
IsTextColumn(s, k) ==
    /\ data_sections[s].dtypes[k] = "object"
    /\ data_sections[s].columns[k] \notin {"Caller Phone", "Notice Date", "Moveout Date"}

\* C23: in the single-header-row parsers a record's value under the column name H is the
\* cell of its data row in the grid column of the header cell H, also when blank header
\* cells lie between named ones (checked on the columns kept as text, whose name is in one
\* header cell only).
C23_ValueUnderItsHeader ==
    (report \in {"work_order_report", "budget_comparison", "residents_on_notice"} /\ pc = "done") =>
        \A s \in DOMAIN trace :
            \A k \in 1..Len(data_sections[s].columns) :
                \A g \in HeaderColumnsOf(s, data_sections[s].columns[k]) :
                    (IsTextColumn(s, k) /\ Cardinality(HeaderColumnsOf(s, data_sections[s].columns[k])) = 1) =>
                        \A r \in 1..Len(data_sections[s].rows) :
                            data_sections[s].rows[r][k] = StrVal(SourceText(s, r, g))

\* the first row of the sheet with "WO#" in its first cell or "Brief Desc" in its second
\* is followed by no row that has text in the columns of its named cells
HeaderWithoutData ==
    \E h \in 1..Len(df_raw) :
        /\ Contains(StrCell(df_raw[h][1]), "WO#") \/ Contains(StrCell(df_raw[h][2]), "Brief Desc")
        /\ \A j \in 1..(h - 1) :
              ~(Contains(StrCell(df_raw[j][1]), "WO#") \/ Contains(StrCell(df_raw[j][2]), "Brief Desc"))
        /\ \A i \in (h + 1)..Len(df_raw) :
              \A k \in 1..Cardinality({g \in 1..Len(df_raw[h]) : Strip(df_raw[h][g]) # ""}) :
                  Strip(df_raw[i][k]) = ""

\* C24: parse_work_order_report returns a work_orders table (possibly empty) and a
\* work_order_count for a sheet whose header row is followed by no non-empty data row;
\* no exception leaves it.
C24_HeaderOnlyReturnsEmpty ==
    (report = "work_order_report" /\ ParserEnded /\ HeaderWithoutData) =>
        /\ raised = ""
        /\ "work_orders" \in DOMAIN data_sections
        /\ "work_order_count" \in DOMAIN metadata

\* the records of a weekly_occupancy_data list
RecordsOf(records) == {records[i] : i \in 1..Len(records)}

\* process p has returned True from update_with_new_week_data
UpdateReturnedTrue(p) ==
    procs[p].pc = "returned" /\ procs[p].op = "update" /\ procs[p].result = "True"

Stored == bucket.history.weekly_occupancy_data

\* process p has returned True from a call that no call of the other process overlapped
ReturnedTrueAlone(p, op) ==
    /\ procs[p].pc = "returned" /\ procs[p].op = op /\ procs[p].result = "True"
    /\ ~procs[p].concurrent

C28_BackupBeforeReplace ==
    upload.backup_existing => upload.replaced \subseteq bucket.backups

\* the rows of the table of the report with the name f in the folder of the uploaded week
UploadedRows(f) ==
    IF f \in DOMAIN bucket.weeks[upload.date] THEN bucket.weeks[upload.date][f].rows ELSE 0

PatternIn(directory_path) ==
    LET k == identify_file_type(PathJoin(directory_path, Basename(request.path)),
                                Moved(files, directory_path))
    IN  IF k = 0 THEN "" ELSE FILE_PATTERNS[k]

\* C30: the dispatcher's choice depends only on the file's name: for two paths with the
\* same basename identify_file_type selects the same pattern entry (or none for both),
\* whatever words the directory names contain; so the entry parse_file used for a file
\* is the entry selected for a file of that name in any other directory.
C30_ChoiceByNameOnly ==
    (ParseFileDone /\ request.path \in DOMAIN files) =>
        \A d \in {DirectoryPath, ReportsDirectory} : returned.file_type = PatternIn(d)

====
